---- MODULE Spec2Model ----
(***************************************************************************)
(* Import-graph engine of the Scaffold extension: the ImportGraph store    *)
(* (src/models/graph.ts), the ImportGraphBuilder                           *)
(* (src/analyzers/importGraphBuilder.ts), the FileWatcher and the          *)
(* ScaffoldViewProvider that drive it.                                     *)
(***************************************************************************)
EXTENDS Integers, Sequences, FiniteSets, TLC

\* ------------------------------------------------------------------ bounds
\* File identities are 1..NumPaths (canonical absolute paths, in path order).
NumPaths == 3
\* Calls explored per behaviour of the raw ImportGraph API (SpecGraph).
MaxOps == 4

\* Import declarations per source file.
MaxImports == 2
\* Builder workload (Spec): writes to the workspace by other processes,
\* file-watcher events delivered, and runAnalysis calls per behaviour.
MaxFsChanges == 1
MaxEvents == 1
MaxAnalyses == 1
\* Concurrency workload (SpecConcurrent): runAnalysis calls (first analysis,
\* refresh command, webview messages) and getFileMetrics calls (status bar,
\* command) per behaviour.
MaxRefreshes == 2
MaxReads == 1
\* Threshold workload (SpecThreshold): importers of the hub file, and calls.
MaxImporters == 6
MaxStarOps == 3
\* Watcher workload (SpecWatcher): watcher events delivered per behaviour.
MaxWatcherEvents == 3
\* Build workload (SpecBuild): import declarations in the whole workspace.
MaxWorkspaceImports == 3
\* Query workload (SpecQueries): imported files and the files that import
\* them, calculateMetrics calls per behaviour, and the largest limit passed to
\* getLoadBearingFiles.
NumImported == 3
NumImporting == 2
MaxQueryOps == 1
MaxLimit == 2
\* Score workload (SpecScore): importers of the most imported file, and calls.
MaxFanIn == 40
MaxScoreOps == 3
\* Failing updates (SpecFlush): watcher events.
MaxFlushEvents == 2
\* Serialization workload (SpecSerial): ImportGraph mutator calls.
MaxSerialOps == 3
\* importance scores are percentages
MaxScore == 100

Paths == 1..NumPaths

VARIABLES
  \* ImportGraphBuilder.graph -> ImportGraph.nodes: the Map in insertion
  \* order, a sequence of FileNode
  graph,
  lastCall,         \* the ImportGraph / builder call that completed last
  opCount,          \* number of raw ImportGraph calls made so far
  \* the workspace on disk
  fs,               \* path -> [exists, readable, imports]
  fsChanges,        \* writes made so far
  entries,          \* what is on disk at each candidate path of one import
  locale,           \* the host's default locale, as far as collation goes
  returned,         \* what the query that ran last returned
  \* ImportGraphBuilder.buildGraph in flight
  buildPc,          \* "idle" | "findFiles" | "loop"
  files,            \* const files = await this.findTypeScriptFiles()
  fileIdx,          \* the loop variable i (1-based: files[fileIdx] was processed last)
  \* ScaffoldViewProvider
  isAnalyzing,
  analysisPc,       \* "idle" | "build" | "navigation"
  analyses,         \* runAnalysis calls so far
  dropped,          \* of those, calls that returned at the isAnalyzing guard
  buildCalls,       \* buildGraph calls so far
  \* FileWatcher
  pendingUpdates,   \* Set<string> in insertion order
  pendingDeletes,   \* Set<string> in insertion order
  debounceTimer,    \* "none" | "pending" | "fired"
  timers,           \* the host's armed timeouts, oldest first: the time each has waited
  quiet,            \* the time since the watcher last accepted an event
  flushPc,          \* "idle" | "updating"
  updates,          \* const updates = Array.from(this.pendingUpdates)
  updIdx,           \* position of the updateFile call in flight
  flushChanged,     \* updates.length > 0 || deletes.length > 0
  updatePc,         \* "idle" | "awaitProcess": updateFile in flight
  events,           \* watcher events delivered so far
  accepted,         \* history: events accepted since the last flush took its snapshot
  flushCalls,       \* history: builder calls made by the flush that ran last
  onUpdateCalls,    \* history: onUpdateCallback() calls of that flush, each with
                    \*   the builder calls made before it
  caught,           \* history: paths whose updateFile raised in that flush
  \* the JavaScript job queue: continuations of awaits on settled promises
  microQ,
  \* history
  graphBeforeBuild, \* the builder's graph when buildGraph was last called
  graphBeforeCall,  \* the builder's graph when updateFile/removeFile was last called
  buildClean,       \* no write and no watcher flush since buildGraph was last called
  updateClean,      \* no write since updateFile was last called
  lastRead,         \* what the last getFileMetrics call returned, and when
  reads

graphVars    == <<graph, lastCall, opCount>>
queryVars    == <<entries, locale, returned>>
envVars      == <<fs, fsChanges, queryVars>>
buildVars    == <<buildPc, files, fileIdx>>
providerVars == <<isAnalyzing, analysisPc, analyses, dropped, buildCalls>>
watcherVars  == <<pendingUpdates, pendingDeletes, debounceTimer, timers, quiet,
                  flushPc, updates,
                  updIdx, flushChanged, updatePc, events, accepted, flushCalls,
                  onUpdateCalls, caught>>
historyVars  == <<graphBeforeBuild, graphBeforeCall, buildClean, updateClean,
                  lastRead, reads>>
systemVars   == <<envVars, buildVars, providerVars, watcherVars, microQ, historyVars>>

vars == <<graphVars, systemVars>>

\* ------------------------------------------------------- sequence helpers
\* Array.prototype.includes
Includes(s, x) == \E i \in 1..Len(s) : s[i] = x

\* Array.prototype.filter(p => p !== x)
FilterOut(s, x) == SelectSeq(s, LAMBDA y : y # x)

SeqToSet(s) == { s[i] : i \in 1..Len(s) }

MaxOf(S) == CHOOSE x \in S : \A y \in S : y <= x

\* ------------------------------------------------------------ ImportGraph
Undefined == [filePath |-> 0]

\* Metrics of a freshly created node (graph.ts:26-32).
ZeroMetrics ==
  [inDegree |-> 0, outDegree |-> 0, isLeaf |-> TRUE,
   isLoadBearing |-> FALSE, importanceScore |-> 0]

\* File names are strings of UTF-16 code units: "a", "m", "z", "B", "A".
FileNames == <<(<<97>>), (<<109>>), (<<122>>), (<<66>>), (<<65>>)>>

\* ImportGraph.getRelativePath: the path of file p below the workspace root;
\* files past the named ones are called f06, f07, ...
getRelativePath(filePath) ==
  IF filePath \in 1..Len(FileNames) THEN FileNames[filePath]
  ELSE <<102, 48 + ((filePath \div 10) % 10), 48 + (filePath % 10)>>

NewNode(filePath) ==
  [filePath |-> filePath, relativePath |-> getRelativePath(filePath),
   imports |-> <<>>, importedBy |-> <<>>, metrics |-> ZeroMetrics]

EmptyGraph == <<>>

\* Map.has
HasNode(g, filePath) == \E i \in 1..Len(g) : g[i].filePath = filePath

IndexOf(g, filePath) == CHOOSE i \in 1..Len(g) : g[i].filePath = filePath

\* ImportGraph.getNode
getNode(g, filePath) ==
  IF HasNode(g, filePath) THEN g[IndexOf(g, filePath)] ELSE Undefined

NodePaths(g) == { g[i].filePath : i \in 1..Len(g) }

\* ImportGraph.addNode: the graph after the call
addNode(g, filePath) ==
  IF HasNode(g, filePath) THEN g ELSE Append(g, NewNode(filePath))

\* Faulty variant: addEdge without its two "includes" tests.
addEdgeUnchecked(g, importerPath, importedPath) ==
  LET g1 == addNode(g, importerPath)
      g2 == addNode(g1, importedPath)
      i  == IndexOf(g2, importerPath)
      g3 == [g2 EXCEPT ![i].imports = Append(@, importedPath)]
      j  == IndexOf(g3, importedPath)
  IN  [g3 EXCEPT ![j].importedBy = Append(@, importerPath)]

\* Faulty variant: addEdge that ignores an edge from a file to itself.
addEdgeNoSelf(g, importerPath, importedPath) ==
  IF importerPath = importedPath THEN addNode(g, importerPath)
  ELSE LET g1 == addNode(g, importerPath)
           g2 == addNode(g1, importedPath)
           i  == IndexOf(g2, importerPath)
           g3 == IF Includes(g2[i].imports, importedPath)
                   THEN g2
                   ELSE [g2 EXCEPT ![i].imports = Append(@, importedPath)]
           j  == IndexOf(g3, importedPath)
       IN  IF Includes(g3[j].importedBy, importerPath)
             THEN g3
             ELSE [g3 EXCEPT ![j].importedBy = Append(@, importerPath)]

\* ImportGraph.addEdge
addEdge(g, importerPath, importedPath) ==
  LET g1 == addNode(g, importerPath)
      g2 == addNode(g1, importedPath)
      i  == IndexOf(g2, importerPath)
      g3 == IF Includes(g2[i].imports, importedPath)
              THEN g2
              ELSE [g2 EXCEPT ![i].imports = Append(@, importedPath)]
      j  == IndexOf(g3, importedPath)
  IN  IF Includes(g3[j].importedBy, importerPath)
        THEN g3
        ELSE [g3 EXCEPT ![j].importedBy = Append(@, importerPath)]

\* Faulty variant: the loop also rewrites the stored inDegree of each target.
RECURSIVE ScrubImportedByEager(_, _, _)
ScrubImportedByEager(g, targets, filePath) ==
  IF targets = <<>> THEN g
  ELSE LET t  == Head(targets)
           g1 == IF HasNode(g, t)
                   THEN [g EXCEPT ![IndexOf(g, t)].importedBy = FilterOut(@, filePath),
                                  ![IndexOf(g, t)].metrics.inDegree =
                                     Len(FilterOut(g[IndexOf(g, t)].importedBy, filePath))]
                   ELSE g
       IN  ScrubImportedByEager(g1, Tail(targets), filePath)

\* The loop "for (const importedPath of node.imports)" of removeNode and
\* clearEdgesFor: filePath is filtered out of each target's importedBy.
RECURSIVE ScrubImportedBy(_, _, _)
ScrubImportedBy(g, targets, filePath) ==
  IF targets = <<>> THEN g
  ELSE LET t  == Head(targets)
           g1 == IF HasNode(g, t)
                   THEN [g EXCEPT ![IndexOf(g, t)].importedBy = FilterOut(@, filePath)]
                   ELSE g
       IN  ScrubImportedBy(g1, Tail(targets), filePath)

\* The loop "for (const importerPath of node.importedBy)" of removeNode.
RECURSIVE ScrubImports(_, _, _)
ScrubImports(g, importers, filePath) ==
  IF importers = <<>> THEN g
  ELSE LET s  == Head(importers)
           g1 == IF HasNode(g, s)
                   THEN [g EXCEPT ![IndexOf(g, s)].imports = FilterOut(@, filePath)]
                   ELSE g
       IN  ScrubImports(g1, Tail(importers), filePath)

\* Map.delete
DeleteNode(g, filePath) == SelectSeq(g, LAMBDA n : n.filePath # filePath)

\* Faulty variant: removeNode that deletes the node and runs neither loop.
removeNodeDeleteOnly(g, filePath) == DeleteNode(g, filePath)

\* Faulty variant: removeNode without its second loop, so that the files which
\* imported the removed one keep it in their imports.
removeNodeKeepingImporters(g, filePath) ==
  IF ~HasNode(g, filePath) THEN g
  ELSE DeleteNode(ScrubImportedBy(g, getNode(g, filePath).imports, filePath), filePath)

\* ImportGraph.removeNode
removeNode(g, filePath) ==
  IF ~HasNode(g, filePath) THEN g
  ELSE LET g1 == ScrubImportedBy(g, getNode(g, filePath).imports, filePath)
           \* node.importedBy is read after the first loop has run
           g2 == ScrubImports(g1, getNode(g1, filePath).importedBy, filePath)
       IN  DeleteNode(g2, filePath)

\* Faulty variant: clearEdgesFor that empties node.imports without taking the
\* node out of its targets' importedBy.
clearEdgesForOneSided(g, filePath) ==
  IF ~HasNode(g, filePath) THEN g
  ELSE [g EXCEPT ![IndexOf(g, filePath)].imports = <<>>]

\* Faulty variant: clearEdgesFor that also empties node.importedBy.
clearEdgesForBothLists(g, filePath) ==
  IF ~HasNode(g, filePath) THEN g
  ELSE LET g1 == ScrubImportedBy(g, getNode(g, filePath).imports, filePath)
       IN  [g1 EXCEPT ![IndexOf(g1, filePath)].imports = <<>>,
                      ![IndexOf(g1, filePath)].importedBy = <<>>]

\* ImportGraph.clearEdgesFor
clearEdgesFor(g, filePath) ==
  IF ~HasNode(g, filePath) THEN g
  ELSE LET g1 == ScrubImportedBy(g, getNode(g, filePath).imports, filePath)
       IN  [g1 EXCEPT ![IndexOf(g1, filePath)].imports = <<>>]

\* ------------------------------------------- JavaScript Number arithmetic
\* calculateMetrics computes Math.round((inDegree / maxInDegree) * 100) on
\* IEEE-754 binary64 values.  A positive Number is [m, e]: m its 53
\* significand bits, most significant (always 1) first, and e its exponent,
\* value = (m[1].m[2]...m[53])_2 * 2^e.  Zero is FZero.
SignificandBits == 53

FZero == [m |-> <<>>, e |-> 0]

RECURSIVE NatToBits(_)
NatToBits(n) == IF n = 0 THEN <<>> ELSE Append(NatToBits(n \div 2), n % 2)

RECURSIVE BitsToNat(_)
BitsToNat(s) ==
  IF s = <<>> THEN 0 ELSE 2 * BitsToNat(SubSeq(s, 1, Len(s) - 1)) + s[Len(s)]

\* Long arithmetic runs on limbs of LimbBits bits, most significant first.
LimbBits == 9
Limb == 2^LimbBits

\* the bits of a limb sequence
LimbsToBits(ls) ==
  [k \in 1..(LimbBits * Len(ls)) |->
     (ls[((k - 1) \div LimbBits) + 1] \div 2^(LimbBits - 1 - ((k - 1) % LimbBits))) % 2]

\* the limbs of a bit string, padded with leading zeros to whole limbs
BitsToLimbs(s) ==
  LET n   == (Len(s) + LimbBits - 1) \div LimbBits
      pad == n * LimbBits - Len(s)
      bit(k) == IF k <= pad THEN 0 ELSE s[k - pad]
  IN  [j \in 1..n |-> BitsToNat([i \in 1..LimbBits |-> bit((j - 1) * LimbBits + i)])]

StripLeadingZeros(s) ==
  IF \A i \in 1..Len(s) : s[i] = 0 THEN <<>>
  ELSE SubSeq(s, CHOOSE i \in 1..Len(s) : s[i] = 1 /\ \A j \in 1..(i - 1) : s[j] = 0, Len(s))

\* s + 1 on a bit string that is not all ones
IncBits(s) ==
  LET z == CHOOSE i \in 1..Len(s) : s[i] = 0 /\ \A j \in (i + 1)..Len(s) : s[j] = 1
  IN  [i \in 1..Len(s) |-> IF i < z THEN s[i] ELSE IF i = z THEN 1 ELSE 0]

\* Round to nearest, ties to even: bits is the exact significand (leading bit
\* 1, at least SignificandBits long), sticky says whether non-zero digits
\* follow it, e is the exponent of the leading bit.
RoundNearestEven(bits, sticky, e) ==
  LET kept   == SubSeq(bits, 1, SignificandBits)
      guard  == IF Len(bits) > SignificandBits THEN bits[SignificandBits + 1] ELSE 0
      rest   == \/ sticky
                \/ \E i \in (SignificandBits + 2)..Len(bits) : bits[i] = 1
      up     == guard = 1 /\ (rest \/ kept[SignificandBits] = 1)
      allOne == \A i \in 1..SignificandBits : kept[i] = 1
  IN  IF ~up THEN [m |-> kept, e |-> e]
      ELSE IF allOne
        THEN [m |-> [i \in 1..SignificandBits |-> IF i = 1 THEN 1 ELSE 0], e |-> e + 1]
        ELSE [m |-> IncBits(kept), e |-> e]

\* n more quotient limbs of r / d (0 <= r < d)
RECURSIVE DivLimbs(_, _, _)
DivLimbs(r, d, n) ==
  IF n = 0 THEN <<>>
  ELSE <<(r * Limb) \div d>> \o DivLimbs((r * Limb) % d, d, n - 1)

\* the remainder left after those n limbs
RECURSIVE DivRem(_, _, _)
DivRem(r, d, n) == IF n = 0 THEN r ELSE DivRem((r * Limb) % d, d, n - 1)

\* a / b for integers a >= 0, b >= 1 held exactly as Numbers
FDiv(a, b) ==
  IF a = 0 THEN FZero
  ELSE LET up == IF a >= b THEN CHOOSE k \in 0..12 : b * 2^k <= a /\ a < b * 2^(k + 1)
                 ELSE 0
           dn == IF a < b THEN CHOOSE k \in 1..12 : a * 2^k >= b /\ a * 2^(k - 1) < b
                 ELSE 0
           n  == a * 2^dn
           d  == b * 2^up
           \* fraction limbs enough for the guard bit and one more
           fl == (SignificandBits \div LimbBits) + 1
       IN  RoundNearestEven(<<1>> \o LimbsToBits(DivLimbs(n - d, d, fl)),
                            DivRem(n - d, d, fl) # 0,
                            up - dn)

\* the exact product of a limb sequence and a small integer c, carry included
RECURSIVE MulLimbs(_, _, _)
MulLimbs(ls, c, carry) ==
  IF ls = <<>> THEN (IF carry = 0 THEN <<>> ELSE <<carry>>)
  ELSE LET t == ls[Len(ls)] * c + carry
       IN  Append(MulLimbs(SubSeq(ls, 1, Len(ls) - 1), c, t \div Limb), t % Limb)

\* x * c for a Number x and an integer c in 1..Limb held exactly as a Number
FMul(x, c) ==
  IF x = FZero THEN FZero
  ELSE LET p == StripLeadingZeros(LimbsToBits(MulLimbs(BitsToLimbs(x.m), c, 0)))
       IN  RoundNearestEven(p, FALSE, x.e - (SignificandBits - 1) + (Len(p) - 1))

\* Math.round for 0 <= x < 2^52: the nearest integer, ties towards +Infinity
MathRound(x) ==
  IF x = FZero \/ x.e < -1 THEN 0
  ELSE IF x.e = -1 THEN 1
  ELSE BitsToNat(SubSeq(x.m, 1, x.e + 1)) + x.m[x.e + 2]

\* graph.ts:113  Math.round((inDegree / maxInDegree) * 100)
ImportanceScore(inDegree, maxInDegree) ==
  MathRound(FMul(FDiv(inDegree, maxInDegree), 100))

\* graph.ts:112  inDegree >= 5
LoadBearingThreshold == 5

\* Faulty variant: the load-bearing test written "inDegree > 5".
MetricsOfStrictThreshold(node, maxInDegree) ==
  LET inDegree  == Len(node.importedBy)
      outDegree == Len(node.imports)
  IN  [inDegree        |-> inDegree,
       outDegree       |-> outDegree,
       isLeaf          |-> inDegree = 0,
       isLoadBearing   |-> inDegree > LoadBearingThreshold,
       importanceScore |-> ImportanceScore(inDegree, maxInDegree)]

\* Faulty variant: degrees added to the stored ones instead of replacing them.
MetricsOfAccumulating(node, maxInDegree) ==
  LET inDegree  == node.metrics.inDegree + Len(node.importedBy)
      outDegree == node.metrics.outDegree + Len(node.imports)
  IN  [inDegree        |-> inDegree,
       outDegree       |-> outDegree,
       isLeaf          |-> inDegree = 0,
       isLoadBearing   |-> inDegree >= LoadBearingThreshold,
       importanceScore |-> ImportanceScore(Len(node.importedBy), maxInDegree)]

\* Faulty variant: the score of a file rises with its path.
MetricsOfByPath(node, maxInDegree) ==
  LET inDegree  == Len(node.importedBy)
      outDegree == Len(node.imports)
  IN  [inDegree        |-> inDegree,
       outDegree       |-> outDegree,
       isLeaf          |-> inDegree = 0,
       isLoadBearing   |-> inDegree >= LoadBearingThreshold,
       importanceScore |-> ImportanceScore(inDegree, maxInDegree) + node.filePath]

\* the metrics calculateMetrics stores for a node with the given edge lists
MetricsOf(node, maxInDegree) ==
  LET inDegree  == Len(node.importedBy)
      outDegree == Len(node.imports)
  IN  [inDegree        |-> inDegree,
       outDegree       |-> outDegree,
       isLeaf          |-> inDegree = 0,
       isLoadBearing   |-> inDegree >= LoadBearingThreshold,
       importanceScore |-> ImportanceScore(inDegree, maxInDegree)]

\* Faulty variant: the scores taken relative to the number of files.
MaxInDegreeOverFiles(g) == MaxOf({1, Len(g)})

\* Math.max(1, ...nodes.map(n => n.importedBy.length))
MaxInDegree(g) == MaxOf({1} \cup { Len(g[i].importedBy) : i \in 1..Len(g) })

\* The loop "for (const node of this.nodes.values())" of calculateMetrics,
\* over the first k nodes in insertion order.
RECURSIVE SetMetrics(_, _, _)
SetMetrics(g, maxInDegree, k) ==
  IF k = 0 THEN <<>>
  ELSE Append(SetMetrics(g, maxInDegree, k - 1),
              [g[k] EXCEPT !.metrics = MetricsOf(g[k], maxInDegree)])

\* ImportGraph.calculateMetrics
calculateMetrics(g) == SetMetrics(g, MaxInDegree(g), Len(g))

\* ------------------------------------------------- ImportGraph queries
\* Comparison of two sequences of numbers, element by element, a proper
\* prefix first: -1, 0 or 1.
RECURSIVE CompareSeq(_, _)
CompareSeq(x, y) ==
  IF x = <<>> /\ y = <<>> THEN 0
  ELSE IF x = <<>> THEN -1
  ELSE IF y = <<>> THEN 1
  ELSE IF Head(x) < Head(y) THEN -1
  ELSE IF Head(x) > Head(y) THEN 1
  ELSE CompareSeq(Tail(x), Tail(y))

\* Collation of Latin letters: the letter first, whatever its case ...
IsUpper(c) == c \in 65..90
PrimaryWeight(c) == IF IsUpper(c) THEN c + 32 ELSE c
\* ... and between strings with the same letters, the case: lower case first
\* in most locales, upper case first in some (Danish, Maltese).
Locales == {"lowerFirst", "upperFirst"}
CaseWeight(c, loc) ==
  IF loc = "lowerFirst" THEN (IF IsUpper(c) THEN 1 ELSE 0)
  ELSE (IF IsUpper(c) THEN 0 ELSE 1)

\* String.prototype.localeCompare in the host's default locale
localeCompare(a, b, loc) ==
  LET primary == CompareSeq([i \in 1..Len(a) |-> PrimaryWeight(a[i])],
                            [i \in 1..Len(b) |-> PrimaryWeight(b[i])])
  IN  IF primary # 0 THEN primary
      ELSE CompareSeq([i \in 1..Len(a) |-> CaseWeight(a[i], loc)],
                      [i \in 1..Len(b) |-> CaseWeight(b[i], loc)])

\* Array.prototype.sort(compare), where compare[i][j] is what the comparator
\* returns for s[i] and s[j]: stable, so an element comes after those that
\* compare smaller and after the earlier ones that compare equal.
Sort(s, compare) ==
  LET rank(i) == 1 + Cardinality({ j \in 1..Len(s) :
                                     \/ compare[j][i] < 0
                                     \/ compare[j][i] = 0 /\ j < i })
  IN  [k \in 1..Len(s) |-> s[CHOOSE i \in 1..Len(s) : rank(i) = k]]

\* (a, b) => b.metrics.inDegree - a.metrics.inDegree
ByInDegreeDescending(s) ==
  [i \in 1..Len(s) |-> [j \in 1..Len(s) |->
     s[j].metrics.inDegree - s[i].metrics.inDegree]]

\* (a, b) => a.relativePath.localeCompare(b.relativePath)
ByRelativePath(s, loc) ==
  [i \in 1..Len(s) |-> [j \in 1..Len(s) |->
     localeCompare(s[i].relativePath, s[j].relativePath, loc)]]

\* Array.prototype.slice(0, end)
Slice0(s, end) ==
  LET to == IF end < 0 THEN (IF Len(s) + end < 0 THEN 0 ELSE Len(s) + end)
            ELSE (IF end > Len(s) THEN Len(s) ELSE end)
  IN  SubSeq(s, 1, to)

\* Faulty variant: getLoadBearingFiles without ".slice(0, limit)".
getLoadBearingFilesUnlimited(g, limit) ==
  LET imported == SelectSeq(g, LAMBDA n : n.metrics.inDegree > 0)
  IN  Sort(imported, ByInDegreeDescending(imported))

\* ImportGraph.getLoadBearingFiles
getLoadBearingFiles(g, limit) ==
  LET imported == SelectSeq(g, LAMBDA n : n.metrics.inDegree > 0)
  IN  Slice0(Sort(imported, ByInDegreeDescending(imported)), limit)

\* ImportGraph.getLeafFiles
getLeafFiles(g, loc) ==
  LET leaves == SelectSeq(g, LAMBDA n : n.metrics.isLeaf)
  IN  Sort(leaves, ByRelativePath(leaves, loc))

\* ------------------------------------------------ ImportGraph serialization
\* Map.set: the entry of an existing key is replaced in place, a new key is
\* appended.
MapSet(g, node) ==
  IF HasNode(g, node.filePath)
    THEN [i \in 1..Len(g) |-> IF g[i].filePath = node.filePath THEN node ELSE g[i]]
    ELSE Append(g, node)

\* ImportGraph.getAllNodes: Array.from(this.nodes.values())
getAllNodes(g) == [i \in 1..Len(g) |-> g[i]]

\* ImportGraph.serialize, of a graph constructed with the given workspaceRoot
serialize(g, workspaceRoot) ==
  [nodes |-> getAllNodes(g), workspaceRoot |-> workspaceRoot]

\* The loop "for (const node of data.nodes)" of deserialize over the first k
\* nodes.
RECURSIVE SetNodes(_, _)
SetNodes(nodes, k) ==
  IF k = 0 THEN EmptyGraph
  ELSE MapSet(SetNodes(nodes, k - 1), nodes[k])

\* Faulty variant: deserialize that rebuilds the node set with addNode.
RECURSIVE AddNodesOf(_, _)
AddNodesOf(nodes, k) ==
  IF k = 0 THEN EmptyGraph
  ELSE addNode(AddNodesOf(nodes, k - 1), nodes[k].filePath)

deserializeByAddNode(data) ==
  [nodes |-> AddNodesOf(data.nodes, Len(data.nodes)),
   workspaceRoot |-> data.workspaceRoot]

\* ImportGraph.deserialize: the nodes map and the workspaceRoot of the new graph
deserialize(data) ==
  [nodes |-> SetNodes(data.nodes, Len(data.nodes)),
   workspaceRoot |-> data.workspaceRoot]

\* ------------------------------------------------------ importance tiers
\* Faulty variant: the bands of the webview start one above the thresholds.
webviewGetImportanceTierStrict(score) ==
  IF score > 75 THEN "critical"
  ELSE IF score > 50 THEN "high"
  ELSE IF score > 25 THEN "medium"
  ELSE "low"

\* getImportanceTier(score) of the webview script
webviewGetImportanceTier(score) ==
  IF score >= 75 THEN "critical"
  ELSE IF score >= 50 THEN "high"
  ELSE IF score >= 25 THEN "medium"
  ELSE "low"

\* FileMetricsCalculator.getImportanceTier(node)
getImportanceTier(node) ==
  LET score == node.metrics.importanceScore
  IN  IF score >= 75 THEN "critical"
      ELSE IF score >= 50 THEN "high"
      ELSE IF score >= 25 THEN "medium"
      ELSE "low"

\* ------------------------------------------------ workspace and parser
\* An import specifier: a bare package name ('react') or a relative path
\* ('./b') that names the file `target`.
ExternalSource == [external |-> TRUE, target |-> 0, typeOnly |-> FALSE]
RelativeSource(t) == [external |-> FALSE, target |-> t, typeOnly |-> FALSE]
Specifiers == {ExternalSource} \cup { RelativeSource(t) : t \in Paths }

\* "import type ... from": the same declaration with importClause.isTypeOnly
TypeOnly(source) == [source EXCEPT !.typeOnly = TRUE]
ValueImport(source) == [source EXCEPT !.typeOnly = FALSE]
AllSpecifiers == Specifiers \cup { TypeOnly(source) : source \in Specifiers }

\* The import declarations of a source file, in source order.
Contents == UNION { [1..n -> Specifiers] : n \in 0..MaxImports }

Absent     == [exists |-> FALSE, readable |-> FALSE, imports |-> <<>>]
Unreadable == [exists |-> TRUE, readable |-> FALSE, imports |-> <<>>]
SourceFile(c) == [exists |-> TRUE, readable |-> TRUE, imports |-> c]
FileStates == {Absent, Unreadable} \cup { SourceFile(c) : c \in Contents }

\* TypeScriptParser.resolveImportPath for a relative specifier: the target when
\* it exists on disk as a file, undefined (0) otherwise.
resolveImportPath(fsys, source, importerPath) ==
  IF fsys[source.target].exists THEN source.target ELSE 0

\* TypeScriptParser.parseImportDeclaration
parseImportDeclaration(fsys, source, importerPath) ==
  LET isExternal == source.external
  IN  [source       |-> source,
       isExternal   |-> isExternal,
       isTypeOnly   |-> source.typeOnly,
       resolvedPath |-> IF ~isExternal
                          THEN resolveImportPath(fsys, source, importerPath)
                          ELSE 0]

NullParse == [ok |-> FALSE, filePath |-> 0, imports |-> <<>>]

\* TypeScriptParser.parseFile: null when readFileSync throws
parseFile(fsys, filePath) ==
  IF fsys[filePath].exists /\ fsys[filePath].readable
    THEN [ok       |-> TRUE,
          filePath |-> filePath,
          imports  |-> [i \in 1..Len(fsys[filePath].imports) |->
                          parseImportDeclaration(fsys, fsys[filePath].imports[i], filePath)]]
    ELSE NullParse

\* ------------------------------------------------- file resolution
\* The paths resolveRelativeImport probes for one basePath: basePath + ext and
\* path.join(basePath, 'index' + ext).
BasePath(ext)  == [index |-> FALSE, ext |-> ext]
IndexPath(ext) == [index |-> TRUE, ext |-> ext]

\* const extensions = ['.ts', '.tsx', '.js', '.jsx', '']
Extensions == <<".ts", ".tsx", ".js", ".jsx", "">>
\* for (const ext of ['.ts', '.tsx', '.js', '.jsx'])
IndexExtensions == <<".ts", ".tsx", ".js", ".jsx">>

CandidatePaths ==
  { BasePath(Extensions[i]) : i \in 1..Len(Extensions) }
    \cup { IndexPath(IndexExtensions[i]) : i \in 1..Len(IndexExtensions) }

\* What the file system has at a path.
EntryKinds == {"none", "file", "directory"}
NoEntries == [c \in CandidatePaths |-> "none"]

\* fs.existsSync(p)
existsSync(disk, c) == disk[c] # "none"
\* fs.statSync(p).isFile()
isFile(disk, c) == disk[c] = "file"

\* the first position of the array at which the test held, 0 when it held
\* at none
FirstIndex(hits) ==
  IF hits = {} THEN 0 ELSE CHOOSE i \in hits : \A j \in hits : i <= j

\* the positions of extensions at which basePath + ext is a regular file
FileHits(disk) ==
  { k \in 1..Len(Extensions) : /\ existsSync(disk, BasePath(Extensions[k]))
                                /\ isFile(disk, BasePath(Extensions[k])) }

\* the positions of the index extensions at which the index path exists
IndexHits(disk) ==
  { k \in 1..Len(IndexExtensions) : existsSync(disk, IndexPath(IndexExtensions[k])) }

NoReturn == [op |-> "none", arg |-> 0, value |-> 0]

\* "return undefined" of resolveRelativeImport
NotFound == [index |-> FALSE, ext |-> "undefined"]

\* Faulty variant: resolveRelativeImport with its two loops exchanged, the
\* index files probed first.
resolveRelativeImportIndexFirst(disk) ==
  LET j == FirstIndex(IndexHits(disk))
      i == FirstIndex(FileHits(disk))
  IN  IF j # 0 THEN IndexPath(IndexExtensions[j])
      ELSE IF i # 0 THEN BasePath(Extensions[i])
      ELSE NotFound

\* TypeScriptParser.resolveRelativeImport for one basePath: the path returned,
\* undefined when nothing is found
resolveRelativeImport(disk) ==
  LET i == FirstIndex(FileHits(disk))
      j == FirstIndex(IndexHits(disk))
  IN  IF i # 0 THEN BasePath(Extensions[i])
      ELSE IF j # 0 THEN IndexPath(IndexExtensions[j])
      ELSE NotFound

\* -------------------------------------------------- ImportGraphBuilder
\* Faulty variant: the edge loop of processFile passing over "import type"
\* declarations.
RECURSIVE AddImportEdgesSkippingTypeOnly(_, _, _)
AddImportEdgesSkippingTypeOnly(g, filePath, imports) ==
  IF imports = <<>> THEN g
  ELSE LET importInfo == Head(imports)
           g1 == IF ~importInfo.isExternal /\ importInfo.resolvedPath # 0
                      /\ ~importInfo.isTypeOnly
                   THEN addEdge(g, filePath, importInfo.resolvedPath)
                   ELSE g
       IN  AddImportEdgesSkippingTypeOnly(g1, filePath, Tail(imports))

\* the loop "for (const importInfo of parsed.imports)" of processFile
RECURSIVE AddImportEdges(_, _, _)
AddImportEdges(g, filePath, imports) ==
  IF imports = <<>> THEN g
  ELSE LET importInfo == Head(imports)
           g1 == IF ~importInfo.isExternal /\ importInfo.resolvedPath # 0
                   THEN addEdge(g, filePath, importInfo.resolvedPath)
                   ELSE g
       IN  AddImportEdges(g1, filePath, Tail(imports))

\* Faulty variant: processFile adding the file's node before it looks at the
\* parse result, so that a file that failed to parse still gets a node.
processFileNodeFirst(g, fsys, filePath) ==
  LET parsed == parseFile(fsys, filePath)
  IN  IF ~parsed.ok THEN addNode(g, filePath)
      ELSE AddImportEdges(addNode(g, filePath), filePath, parsed.imports)

\* Faulty variant: processFile without "this.graph.addNode(filePath)", so that
\* a parsed file gets a node only through its edges.
processFileEdgesOnly(g, fsys, filePath) ==
  LET parsed == parseFile(fsys, filePath)
  IN  IF ~parsed.ok THEN g ELSE AddImportEdges(g, filePath, parsed.imports)

\* ImportGraphBuilder.processFile: the graph after the call
processFile(g, fsys, filePath) ==
  LET parsed == parseFile(fsys, filePath)
  IN  IF ~parsed.ok THEN g
      ELSE AddImportEdges(addNode(g, filePath), filePath, parsed.imports)

\* Faulty variant: removeFile without "this.graph.calculateMetrics()".
removeFileStaleMetrics(g, filePath) == removeNode(g, filePath)

\* ImportGraphBuilder.removeFile
removeFile(g, filePath) == calculateMetrics(removeNode(g, filePath))

\* Faulty variant: updateFile without "this.graph.clearEdgesFor(filePath)".
updateFileBeginKeepingEdges(g, fsys, filePath) == processFile(g, fsys, filePath)

\* Faulty variant: updateFile that parses first and returns early, its edges
\* kept, when the file cannot be parsed.
updateFileBeginParseFirst(g, fsys, filePath) ==
  IF parseFile(fsys, filePath).ok
    THEN processFile(clearEdgesFor(g, filePath), fsys, filePath)
    ELSE g

\* Faulty variant: updateFile that removes the node instead of clearing its
\* edges.
updateFileBeginRemoving(g, fsys, filePath) ==
  processFile(removeNode(g, filePath), fsys, filePath)

\* ImportGraphBuilder.updateFile up to its await: clearEdgesFor, processFile
updateFileBegin(g, fsys, filePath) ==
  processFile(clearEdgesFor(g, filePath), fsys, filePath)

\* ImportGraphBuilder.findTypeScriptFiles: every *.ts / *.tsx file of the
\* workspace; vscode.workspace.findFiles fixes no order of its results.
findTypeScriptFiles(fsys) == { p \in Paths : fsys[p].exists }

Orderings(S) ==
  { f \in [1..Cardinality(S) -> S] : \A i, j \in 1..Cardinality(S) : f[i] = f[j] => i = j }

\* Faulty variant: the pending paths kept in an array, a path pushed once per
\* event.
SetAddDuplicating(s, x) == Append(s, x)

\* Set.prototype.add on a Set kept in insertion order
SetAdd(s, x) == IF Includes(s, x) THEN s ELSE Append(s, x)

\* the loop "for (const filePath of deletes)" of flushUpdates
RECURSIVE RemoveAll(_, _)
RemoveAll(g, deletes) ==
  IF deletes = <<>> THEN g ELSE RemoveAll(removeFile(g, Head(deletes)), Tail(deletes))

\* ------------------------------------------------------------- the system
Call(op, a, b) == [op |-> op, a |-> a, b |-> b]

\* lastRead before any reader has run
NoRead ==
  [path |-> 0, node |-> Undefined, graph |-> EmptyGraph, building |-> FALSE,
   before |-> EmptyGraph]

\* The workspace when the extension activates: a.ts imports ./b, b.ts imports
\* ./c, and so on down to the last file, which imports nothing.
InitialWorkspace ==
  [p \in Paths |-> IF p < NumPaths THEN SourceFile(<<RelativeSource(p + 1)>>)
                                   ELSE SourceFile(<<>>)]

\* the builder, the provider and the watcher after activation
ProcessInit ==
  /\ returned = NoReturn
  /\ fsChanges = 0
  /\ buildPc = "idle" /\ files = <<>> /\ fileIdx = 0
  /\ isAnalyzing = FALSE /\ analysisPc = "idle"
  /\ analyses = 0 /\ dropped = 0 /\ buildCalls = 0
  /\ pendingUpdates = <<>> /\ pendingDeletes = <<>>
  /\ debounceTimer = "none" /\ timers = <<>> /\ quiet = 0
  /\ flushPc = "idle" /\ updates = <<>> /\ updIdx = 0 /\ flushChanged = FALSE
  /\ updatePc = "idle"
  /\ events = 0
  /\ accepted = <<>> /\ flushCalls = <<>>
  /\ onUpdateCalls = <<>> /\ caught = <<>>
  /\ microQ = <<>>
  /\ graphBeforeBuild = EmptyGraph /\ graphBeforeCall = EmptyGraph
  /\ buildClean = FALSE /\ updateClean = FALSE
  /\ lastRead = NoRead /\ reads = 0

\* the host: nothing at the candidate paths, a locale that sorts a before A
HostInit == entries = NoEntries /\ locale = "lowerFirst"

SystemInit == fs = InitialWorkspace /\ HostInit /\ ProcessInit

Init ==
  /\ graph = EmptyGraph
  /\ lastCall = Call("new", 0, 0)
  /\ opCount = 0
  /\ SystemInit

\* A macrotask (command, message, timer, watcher event, I/O completion) starts
\* only when the job queue has drained.
MacrotaskMayRun == microQ = <<>>

\* The workspace is written by other processes, at any moment.
FsWrite(p, st) ==
  /\ st # fs[p]
  /\ fs' = [fs EXCEPT ![p] = st]
  /\ fsChanges' = fsChanges + 1
  /\ buildClean' = FALSE
  /\ updateClean' = FALSE
  /\ UNCHANGED <<graphVars, queryVars, buildVars, providerVars, watcherVars, microQ,
                 graphBeforeBuild, graphBeforeCall, lastRead, reads>>

\* Faulty variant: runAnalysis without its isAnalyzing guard, so that a call
\* made while an analysis is running starts a build of its own.
RunAnalysisUnguarded ==
  /\ MacrotaskMayRun
  /\ analyses' = analyses + 1
  /\ isAnalyzing' = TRUE
  /\ analysisPc' = "build"
  /\ buildCalls' = buildCalls + 1
  /\ graphBeforeBuild' = graph
  /\ graph' = EmptyGraph
  /\ lastCall' = Call("new", 0, 0)
  /\ buildPc' = "findFiles"
  /\ buildClean' = TRUE
  /\ UNCHANGED <<dropped, opCount, envVars, files, fileIdx, watcherVars, microQ,
                 graphBeforeCall, updateClean, lastRead, reads>>

\* ScaffoldViewProvider.runAnalysis up to the first await of buildGraph
\* (this.graph = new ImportGraph(...); await this.findTypeScriptFiles())
RunAnalysis ==
  /\ MacrotaskMayRun
  /\ analyses' = analyses + 1
  /\ IF isAnalyzing
       THEN /\ dropped' = dropped + 1
            /\ UNCHANGED <<graph, lastCall, isAnalyzing, analysisPc, buildCalls,
                           buildPc, graphBeforeBuild, buildClean>>
       ELSE /\ isAnalyzing' = TRUE
            /\ analysisPc' = "build"
            /\ buildCalls' = buildCalls + 1
            /\ graphBeforeBuild' = graph
            /\ graph' = EmptyGraph
            /\ lastCall' = Call("new", 0, 0)
            /\ buildPc' = "findFiles"
            /\ buildClean' = TRUE
            /\ UNCHANGED dropped
  /\ UNCHANGED <<opCount, envVars, files, fileIdx, watcherVars, microQ,
                 graphBeforeCall, updateClean, lastRead, reads>>

\* buildGraph: findFiles resolves; the first file is processed up to the await
\* of processFile (or, with no file, the build completes)
FindFilesResolve ==
  /\ MacrotaskMayRun
  /\ buildPc = "findFiles"
  /\ \E order \in Orderings(findTypeScriptFiles(fs)) :
       /\ files' = order
       /\ IF order = <<>>
            THEN /\ graph' = calculateMetrics(graph)
                 /\ fileIdx' = 0
                 /\ buildPc' = "idle"
                 /\ lastCall' = Call("buildGraph", 0, 0)
                 /\ microQ' = Append(microQ, "analysis")
            ELSE /\ graph' = processFile(graph, fs, order[1])
                 /\ fileIdx' = 1
                 /\ buildPc' = "loop"
                 /\ microQ' = Append(microQ, "build")
                 /\ UNCHANGED lastCall
  /\ UNCHANGED <<opCount, envVars, providerVars, watcherVars, historyVars>>

\* Faulty variant: runAnalysis without its "finally": a rejected findFiles
\* leaves isAnalyzing set.
FindFilesRejectNoFinally ==
  /\ MacrotaskMayRun
  /\ buildPc = "findFiles"
  /\ buildPc' = "idle"
  /\ analysisPc' = "idle"
  /\ UNCHANGED <<graphVars, envVars, files, fileIdx, isAnalyzing, analyses, dropped,
                 buildCalls, watcherVars, microQ, historyVars>>

\* buildGraph: findFiles rejects; the exception passes through runAnalysis'
\* catch and finally
FindFilesReject ==
  /\ MacrotaskMayRun
  /\ buildPc = "findFiles"
  /\ buildPc' = "idle"
  /\ analysisPc' = "idle"
  /\ isAnalyzing' = FALSE
  /\ UNCHANGED <<graphVars, envVars, files, fileIdx, analyses, dropped, buildCalls,
                 watcherVars, microQ, historyVars>>

\* buildGraph resumes after "await this.processFile(file)"
BuildStep ==
  /\ microQ # <<>> /\ Head(microQ) = "build"
  /\ IF fileIdx < Len(files)
       THEN /\ graph' = processFile(graph, fs, files[fileIdx + 1])
            /\ fileIdx' = fileIdx + 1
            /\ microQ' = Append(Tail(microQ), "build")
            /\ UNCHANGED <<buildPc, lastCall>>
       ELSE /\ graph' = calculateMetrics(graph)
            /\ buildPc' = "idle"
            /\ lastCall' = Call("buildGraph", 0, 0)
            /\ microQ' = Append(Tail(microQ), "analysis")
            /\ UNCHANGED fileIdx
  /\ UNCHANGED <<opCount, envVars, files, providerVars, watcherVars, historyVars>>

\* runAnalysis resumes after "await this.graphBuilder.buildGraph(progress)" and
\* awaits navigationAnalyzer.analyze
AnalysisResume ==
  /\ microQ # <<>> /\ Head(microQ) = "analysis"
  /\ microQ' = Tail(microQ)
  /\ analysisPc' = "navigation"
  /\ UNCHANGED <<graphVars, envVars, buildVars, isAnalyzing, analyses, dropped,
                 buildCalls, watcherVars, historyVars>>

\* runAnalysis: the navigation analysis settles; the result is sent (or the
\* error is), and finally isAnalyzing = false
AnalysisSettle ==
  /\ MacrotaskMayRun
  /\ analysisPc = "navigation"
  /\ analysisPc' = "idle"
  /\ isAnalyzing' = FALSE
  /\ UNCHANGED <<graphVars, envVars, buildVars, analyses, dropped, buildCalls,
                 watcherVars, microQ, historyVars>>

\* clearTimeout(this.debounceTimer): the handle is the timeout armed last,
\* and clearing a timeout that has fired does nothing.
clearTimeout(armed) ==
  IF armed = <<>> THEN armed ELSE SubSeq(armed, 1, Len(armed) - 1)

\* Faulty variant: scheduleFlush without its clearTimeout.
scheduleFlushKeepingTimer ==
  /\ debounceTimer' = "pending"
  /\ timers' = Append(timers, 0)

\* FileWatcher.scheduleFlush
scheduleFlush ==
  /\ debounceTimer' = "pending"
  /\ timers' = Append(clearTimeout(timers), 0)

\* The events accepted since the last flush emptied the pending sets, with
\* this one added: the timer is pending exactly when there are any.
Accept(kind, p) ==
  IF debounceTimer = "pending" THEN Append(accepted, [kind |-> kind, path |-> p])
  ELSE <<[kind |-> kind, path |-> p]>>

\* One call "this.onUpdateCallback()" (the provider's onFileChanged, passed to
\* start): the builder calls the flush had made and whether an updateFile was
\* in flight.
Notification(calls, pc) == [after |-> calls, inFlight |-> pc # "idle"]

\* The calls "this.graphBuilder.removeFile(filePath)" of one flush, in order.
RECURSIVE RemoveCalls(_)
RemoveCalls(deletes) ==
  IF deletes = <<>> THEN <<>>
  ELSE <<Call("removeFile", Head(deletes), 0)>> \o RemoveCalls(Tail(deletes))

\* FileWatcher.handleCreate
HandleCreate(p) ==
  /\ MacrotaskMayRun
  /\ events' = events + 1
  /\ accepted' = Accept("create", p)
  /\ pendingUpdates' = SetAdd(pendingUpdates, p)
  /\ quiet' = 0
  /\ scheduleFlush
  /\ UNCHANGED <<graphVars, envVars, buildVars, providerVars, pendingDeletes,
                 flushPc, updates, updIdx, flushChanged, updatePc, flushCalls,
                 onUpdateCalls, caught,
                 microQ, historyVars>>

\* Faulty variant: handleChange without its call of scheduleFlush.
HandleChangeUnscheduled(p) ==
  /\ MacrotaskMayRun
  /\ events' = events + 1
  /\ accepted' = Accept("change", p)
  /\ pendingUpdates' = SetAdd(pendingUpdates, p)
  /\ quiet' = 0
  /\ UNCHANGED <<graphVars, envVars, buildVars, providerVars, pendingDeletes,
                 debounceTimer, timers,
                 flushPc, updates, updIdx, flushChanged, updatePc, flushCalls,
                 onUpdateCalls, caught,
                 microQ, historyVars>>

\* FileWatcher.handleChange
HandleChange(p) ==
  /\ MacrotaskMayRun
  /\ events' = events + 1
  /\ accepted' = Accept("change", p)
  /\ pendingUpdates' = SetAdd(pendingUpdates, p)
  /\ quiet' = 0
  /\ scheduleFlush
  /\ UNCHANGED <<graphVars, envVars, buildVars, providerVars, pendingDeletes,
                 flushPc, updates, updIdx, flushChanged, updatePc, flushCalls,
                 onUpdateCalls, caught,
                 microQ, historyVars>>

\* Faulty variant: handleDelete without "this.pendingUpdates.delete(uri.fsPath)".
HandleDeleteKeepingUpdate(p) ==
  /\ MacrotaskMayRun
  /\ events' = events + 1
  /\ accepted' = Accept("delete", p)
  /\ pendingDeletes' = SetAdd(pendingDeletes, p)
  /\ quiet' = 0
  /\ scheduleFlush
  /\ UNCHANGED <<graphVars, envVars, buildVars, providerVars, pendingUpdates,
                 flushPc, updates, updIdx, flushChanged, updatePc, flushCalls,
                 onUpdateCalls, caught,
                 microQ, historyVars>>

\* FileWatcher.handleDelete
HandleDelete(p) ==
  /\ MacrotaskMayRun
  /\ events' = events + 1
  /\ accepted' = Accept("delete", p)
  /\ pendingUpdates' = FilterOut(pendingUpdates, p)
  /\ pendingDeletes' = SetAdd(pendingDeletes, p)
  /\ quiet' = 0
  /\ scheduleFlush
  /\ UNCHANGED <<graphVars, envVars, buildVars, providerVars,
                 flushPc, updates, updIdx, flushChanged, updatePc, flushCalls,
                 onUpdateCalls, caught,
                 microQ, historyVars>>

\* Faulty variant: flushUpdates with its two loops exchanged, the first
\* updateFile call made before the deletes are processed.
FlushUpdatesDeletesLast ==
  /\ MacrotaskMayRun
  /\ debounceTimer = "pending"
  /\ debounceTimer' = "fired"
  /\ timers' = Tail(timers)
  /\ updates' = pendingUpdates
  /\ pendingUpdates' = <<>>
  /\ pendingDeletes' = <<>>
  /\ flushChanged' = (Len(pendingUpdates) > 0 \/ Len(pendingDeletes) > 0)
  /\ caught' = <<>>
  /\ buildClean' = FALSE
  /\ LET deletes == pendingDeletes
     IN  IF pendingUpdates = <<>>
           THEN /\ graph' = RemoveAll(graph, deletes)
                /\ flushCalls' = RemoveCalls(deletes)
                /\ onUpdateCalls' = IF deletes = <<>> THEN <<>>
                                    ELSE <<Notification(RemoveCalls(deletes), updatePc)>>
                /\ lastCall' = IF deletes = <<>> THEN lastCall
                               ELSE Call("removeFile", deletes[Len(deletes)], 0)
                /\ graphBeforeCall' =
                     IF deletes = <<>> THEN graphBeforeCall
                     ELSE RemoveAll(graph, SubSeq(deletes, 1, Len(deletes) - 1))
                /\ UNCHANGED <<flushPc, updIdx, updatePc, microQ, updateClean>>
           ELSE /\ graphBeforeCall' = graph
                /\ flushCalls' = <<Call("updateFile", pendingUpdates[1], 0)>>
                                   \o RemoveCalls(deletes)
                /\ graph' = RemoveAll(updateFileBegin(graph, fs, pendingUpdates[1]),
                                      deletes)
                /\ onUpdateCalls' = <<>>
                /\ updIdx' = 1
                /\ flushPc' = "updating"
                /\ updatePc' = "awaitProcess"
                /\ updateClean' = TRUE
                /\ microQ' = Append(microQ, "update")
                /\ UNCHANGED lastCall
  /\ UNCHANGED <<opCount, envVars, buildVars, providerVars, events, accepted,
                 quiet, graphBeforeBuild, lastRead, reads>>

\* The debounce timer fires: flushUpdates runs its deletes and its first
\* updateFile call up to the await of processFile
FlushUpdates ==
  /\ MacrotaskMayRun
  /\ debounceTimer = "pending"
  /\ debounceTimer' = "fired"
  /\ timers' = Tail(timers)
  /\ updates' = pendingUpdates
  /\ pendingUpdates' = <<>>
  /\ pendingDeletes' = <<>>
  /\ flushChanged' = (Len(pendingUpdates) > 0 \/ Len(pendingDeletes) > 0)
  /\ caught' = <<>>
  /\ buildClean' = FALSE
  /\ LET deletes == pendingDeletes
         g1 == RemoveAll(graph, deletes)
     IN  IF pendingUpdates = <<>>
           THEN /\ graph' = g1
                /\ flushCalls' = RemoveCalls(deletes)
                /\ onUpdateCalls' = IF deletes = <<>> THEN <<>>
                                    ELSE <<Notification(RemoveCalls(deletes), updatePc)>>
                /\ lastCall' = IF deletes = <<>> THEN lastCall
                               ELSE Call("removeFile", deletes[Len(deletes)], 0)
                /\ graphBeforeCall' =
                     IF deletes = <<>> THEN graphBeforeCall
                     ELSE RemoveAll(graph, SubSeq(deletes, 1, Len(deletes) - 1))
                /\ UNCHANGED <<flushPc, updIdx, updatePc, microQ, updateClean>>
           ELSE /\ graphBeforeCall' = g1
                /\ flushCalls' = Append(RemoveCalls(deletes),
                                        Call("updateFile", pendingUpdates[1], 0))
                /\ graph' = updateFileBegin(g1, fs, pendingUpdates[1])
                /\ onUpdateCalls' = <<>>
                /\ updIdx' = 1
                /\ flushPc' = "updating"
                /\ updatePc' = "awaitProcess"
                /\ updateClean' = TRUE
                /\ microQ' = Append(microQ, "update")
                /\ UNCHANGED lastCall
  /\ UNCHANGED <<opCount, envVars, buildVars, providerVars, events, accepted,
                 quiet, graphBeforeBuild, lastRead, reads>>

\* updateFile resumes after "await this.processFile(filePath)":
\* calculateMetrics, return
UpdateFileResume ==
  /\ microQ # <<>> /\ Head(microQ) = "update"
  /\ graph' = calculateMetrics(graph)
  /\ updatePc' = "idle"
  /\ lastCall' = Call("updateFile", updates[updIdx], 0)
  /\ microQ' = Append(Tail(microQ), "flush")
  /\ UNCHANGED <<opCount, envVars, buildVars, providerVars, pendingUpdates,
                 pendingDeletes, debounceTimer, timers, quiet, flushPc, updates, updIdx,
                 flushChanged, events, accepted, flushCalls, onUpdateCalls,
                 caught, historyVars>>

\* Faulty variant: updateFile raises and flushUpdates has no catch, so that
\* the rejection ends the flush.
UpdateFileRejectEscaping ==
  /\ microQ # <<>> /\ Head(microQ) = "update"
  /\ updatePc' = "idle"
  /\ flushPc' = "idle"
  /\ lastCall' = Call("updateFile threw", updates[updIdx], 0)
  /\ caught' = Append(caught, updates[updIdx])
  /\ microQ' = Tail(microQ)
  /\ UNCHANGED <<graph, opCount, envVars, buildVars, providerVars, pendingUpdates,
                 pendingDeletes, debounceTimer, timers, quiet, updates, updIdx,
                 flushChanged, events, accepted, flushCalls, onUpdateCalls,
                 historyVars>>

\* updateFile raises after "await this.processFile(filePath)": the spread in
\* calculateMetrics' Math.max(1, ...) throws a RangeError when the graph has
\* more nodes than a call takes arguments, before any metrics are stored.
\* The catch of flushUpdates logs the error and the loop goes on.
UpdateFileReject ==
  /\ microQ # <<>> /\ Head(microQ) = "update"
  /\ updatePc' = "idle"
  /\ lastCall' = Call("updateFile threw", updates[updIdx], 0)
  /\ caught' = Append(caught, updates[updIdx])
  /\ microQ' = Append(Tail(microQ), "flush")
  /\ UNCHANGED <<graph, opCount, envVars, buildVars, providerVars, pendingUpdates,
                 pendingDeletes, debounceTimer, timers, quiet, flushPc, updates, updIdx,
                 flushChanged, events, accepted, flushCalls, onUpdateCalls,
                 historyVars>>

\* Faulty variant: flushUpdates with the callback inside its update loop,
\* invoked after every updateFile that returns.
FlushResumeNotifyingEach ==
  /\ microQ # <<>> /\ Head(microQ) = "flush"
  /\ onUpdateCalls' = Append(onUpdateCalls, Notification(flushCalls, updatePc))
  /\ IF updIdx < Len(updates)
       THEN /\ graphBeforeCall' = graph
            /\ flushCalls' = Append(flushCalls, Call("updateFile", updates[updIdx + 1], 0))
            /\ graph' = updateFileBegin(graph, fs, updates[updIdx + 1])
            /\ updIdx' = updIdx + 1
            /\ updatePc' = "awaitProcess"
            /\ updateClean' = TRUE
            /\ microQ' = Append(Tail(microQ), "update")
            /\ UNCHANGED flushPc
       ELSE /\ flushPc' = "idle"
            /\ microQ' = Tail(microQ)
            /\ UNCHANGED <<graph, updIdx, updatePc, graphBeforeCall, updateClean,
                           flushCalls>>
  /\ UNCHANGED <<lastCall, opCount, envVars, buildVars, providerVars, pendingUpdates,
                 pendingDeletes, debounceTimer, timers, quiet, updates, flushChanged, events, accepted,
                 caught, graphBeforeBuild, buildClean, lastRead, reads>>

\* flushUpdates resumes after "await this.graphBuilder.updateFile(filePath)"
FlushResume ==
  /\ microQ # <<>> /\ Head(microQ) = "flush"
  /\ IF updIdx < Len(updates)
       THEN /\ graphBeforeCall' = graph
            /\ flushCalls' = Append(flushCalls, Call("updateFile", updates[updIdx + 1], 0))
            /\ graph' = updateFileBegin(graph, fs, updates[updIdx + 1])
            /\ updIdx' = updIdx + 1
            /\ updatePc' = "awaitProcess"
            /\ updateClean' = TRUE
            /\ microQ' = Append(Tail(microQ), "update")
            /\ UNCHANGED <<flushPc, onUpdateCalls>>
       ELSE /\ flushPc' = "idle"
            /\ microQ' = Tail(microQ)
            /\ onUpdateCalls' =
                 IF flushChanged
                   THEN Append(onUpdateCalls, Notification(flushCalls, updatePc))
                   ELSE onUpdateCalls
            /\ UNCHANGED <<graph, updIdx, updatePc, graphBeforeCall, updateClean,
                           flushCalls>>
  /\ UNCHANGED <<lastCall, opCount, envVars, buildVars, providerVars, pendingUpdates,
                 pendingDeletes, debounceTimer, timers, quiet, updates, flushChanged, events, accepted,
                 caught, graphBeforeBuild, buildClean, lastRead, reads>>

\* ScaffoldViewProvider.getFileMetrics, called by the status bar and the
\* showFileMetrics command
GetFileMetrics(filePath) ==
  /\ MacrotaskMayRun
  /\ reads' = reads + 1
  /\ lastRead' = [path     |-> filePath,
                  node     |-> getNode(graph, filePath),
                  graph    |-> graph,
                  building |-> buildPc # "idle",
                  before   |-> graphBeforeBuild]
  /\ UNCHANGED <<graphVars, envVars, buildVars, providerVars, watcherVars, microQ,
                 graphBeforeBuild, graphBeforeCall, buildClean, updateClean>>

\* The builder driven by one analysis and the watcher, over a workspace that
\* other processes write to.
Next ==
  \/ fsChanges < MaxFsChanges /\ \E p \in Paths, st \in FileStates : FsWrite(p, st)
  \/ analyses < MaxAnalyses /\ RunAnalysis
  \/ FindFilesResolve
  \/ FindFilesReject
  \/ BuildStep
  \/ AnalysisResume
  \/ AnalysisSettle
  \/ events < MaxEvents /\ \E p \in Paths : HandleCreate(p)
  \/ events < MaxEvents /\ \E p \in Paths : HandleChange(p)
  \/ events < MaxEvents /\ \E p \in Paths : HandleDelete(p)
  \/ FlushUpdates
  \/ UpdateFileResume
  \/ FlushResume

Spec == Init /\ [][Next]_vars

\* Analyses, watcher flushes and readers interleaved over a workspace at rest.
NextConcurrent ==
  \/ analyses < MaxRefreshes /\ RunAnalysis
  \/ FindFilesResolve
  \/ FindFilesReject
  \/ BuildStep
  \/ AnalysisResume
  \/ AnalysisSettle
  \/ events < MaxEvents /\ \E p \in Paths : HandleCreate(p)
  \/ events < MaxEvents /\ \E p \in Paths : HandleChange(p)
  \/ events < MaxEvents /\ \E p \in Paths : HandleDelete(p)
  \/ FlushUpdates
  \/ UpdateFileResume
  \/ FlushResume
  \/ reads < MaxReads /\ \E p \in Paths : GetFileMetrics(p)

SpecConcurrent == Init /\ [][NextConcurrent]_vars

\* Source files whose declarations may be "import type".
AllContents == UNION { [1..n -> AllSpecifiers] : n \in 0..MaxImports }
AllFileStates == {Absent, Unreadable} \cup { SourceFile(c) : c \in AllContents }

\* number of import declarations in the files 1..p of a workspace
RECURSIVE ImportCount(_, _)
ImportCount(fsys, p) ==
  IF p = 0 THEN 0 ELSE ImportCount(fsys, p - 1) + Len(fsys[p].imports)

\* Workspaces in which any file may be missing, unreadable, or import anything.
Workspaces ==
  { w \in [Paths -> AllFileStates] : ImportCount(w, NumPaths) <= MaxWorkspaceImports }

InitBuild ==
  /\ graph = EmptyGraph
  /\ lastCall = Call("new", 0, 0)
  /\ opCount = 0
  /\ fs \in Workspaces
  /\ HostInit
  /\ ProcessInit

\* One full build of a workspace at rest.
NextBuild ==
  \/ analyses < MaxAnalyses /\ RunAnalysis
  \/ FindFilesResolve
  \/ FindFilesReject
  \/ BuildStep
  \/ AnalysisResume
  \/ AnalysisSettle

SpecBuild == InitBuild /\ [][NextBuild]_vars

\* The parser resolves the relative import of a file.
ResolveRelativeImport ==
  /\ returned' = [op |-> "resolveRelativeImport", arg |-> 0,
                  value |-> resolveRelativeImport(entries)]
  /\ UNCHANGED <<graphVars, fs, fsChanges, entries, locale, buildVars, providerVars,
                 watcherVars, microQ, historyVars>>

\* Disks on which the entries inside basePath exist only when basePath is a
\* directory.
Disks ==
  { d \in [CandidatePaths -> EntryKinds] :
      d[BasePath("")] # "directory" =>
        \A i \in 1..Len(IndexExtensions) : d[IndexPath(IndexExtensions[i])] = "none" }

InitResolve ==
  /\ graph = EmptyGraph
  /\ lastCall = Call("new", 0, 0)
  /\ opCount = 0
  /\ fs = InitialWorkspace
  /\ entries \in Disks
  /\ locale = "lowerFirst"
  /\ ProcessInit

NextResolve == ResolveRelativeImport

SpecResolve == InitResolve /\ [][NextResolve]_vars

\* The watcher coalescing bursts of events, beside one analysis.
NextWatcher ==
  \/ analyses < MaxAnalyses /\ RunAnalysis
  \/ FindFilesResolve
  \/ FindFilesReject
  \/ BuildStep
  \/ AnalysisResume
  \/ AnalysisSettle
  \/ events < MaxWatcherEvents /\ \E p \in Paths : HandleCreate(p)
  \/ events < MaxWatcherEvents /\ \E p \in Paths : HandleChange(p)
  \/ events < MaxWatcherEvents /\ \E p \in Paths : HandleDelete(p)
  \/ FlushUpdates
  \/ UpdateFileResume
  \/ FlushResume

SpecWatcher == Init /\ [][NextWatcher]_vars

\* The watcher over a graph whose updateFile calls may raise.
NextFlush ==
  \/ analyses < MaxAnalyses /\ RunAnalysis
  \/ FindFilesResolve
  \/ FindFilesReject
  \/ BuildStep
  \/ AnalysisResume
  \/ AnalysisSettle
  \/ events < MaxFlushEvents /\ \E p \in Paths : HandleCreate(p)
  \/ events < MaxFlushEvents /\ \E p \in Paths : HandleChange(p)
  \/ events < MaxFlushEvents /\ \E p \in Paths : HandleDelete(p)
  \/ FlushUpdates
  \/ UpdateFileResume
  \/ UpdateFileReject
  \/ FlushResume

SpecFlush == Init /\ [][NextFlush]_vars

\* ----------------------------------------------- the ImportGraph API alone
\* what a call on the ImportGraph leaves alone
apiFrame ==
  <<envVars, buildVars, providerVars, watcherVars, microQ, graphBeforeBuild,
    buildClean, updateClean, lastRead, reads>>

AddNode(filePath) ==
  /\ graphBeforeCall' = graph
  /\ graph' = addNode(graph, filePath)
  /\ lastCall' = Call("addNode", filePath, 0)
  /\ opCount' = opCount + 1
  /\ UNCHANGED apiFrame

AddEdge(importerPath, importedPath) ==
  /\ graphBeforeCall' = graph
  /\ graph' = addEdge(graph, importerPath, importedPath)
  /\ lastCall' = Call("addEdge", importerPath, importedPath)
  /\ opCount' = opCount + 1
  /\ UNCHANGED apiFrame

RemoveNode(filePath) ==
  /\ graphBeforeCall' = graph
  /\ graph' = removeNode(graph, filePath)
  /\ lastCall' = Call("removeNode", filePath, 0)
  /\ opCount' = opCount + 1
  /\ UNCHANGED apiFrame

ClearEdgesFor(filePath) ==
  /\ graphBeforeCall' = graph
  /\ graph' = clearEdgesFor(graph, filePath)
  /\ lastCall' = Call("clearEdgesFor", filePath, 0)
  /\ opCount' = opCount + 1
  /\ UNCHANGED apiFrame

CalculateMetrics ==
  /\ graphBeforeCall' = graph
  /\ graph' = calculateMetrics(graph)
  /\ lastCall' = Call("calculateMetrics", 0, 0)
  /\ opCount' = opCount + 1
  /\ UNCHANGED apiFrame

InitGraph == Init

NextGraph ==
  \/ opCount < MaxOps /\ \E p \in Paths : AddNode(p)
  \/ opCount < MaxOps /\ \E a \in Paths, b \in Paths : AddEdge(a, b)
  \/ opCount < MaxOps /\ \E p \in Paths : RemoveNode(p)
  \/ opCount < MaxOps /\ \E p \in Paths : ClearEdgesFor(p)
  \/ opCount < MaxOps /\ CalculateMetrics

SpecGraph == InitGraph /\ [][NextGraph]_vars

\* The same calls, for the algebraic laws of the API, which are checked apart
\* from its structural invariants.
SpecLaws == InitGraph /\ [][NextGraph]_vars

\* ------------------------------------------------ the ImportGraph queries
\* what a query leaves alone
queryFrame ==
  <<graphVars, fs, fsChanges, entries, locale, buildVars, providerVars, watcherVars,
    microQ, historyVars>>

\* A reader (the structure map) calls ImportGraph.getLeafFiles.
GetLeafFiles ==
  /\ returned' = [op |-> "getLeafFiles", arg |-> 0,
                  value |-> getLeafFiles(graph, locale), graph |-> graph]
  /\ UNCHANGED queryFrame

\* A reader calls ImportGraph.getLoadBearingFiles.
GetLoadBearingFiles(limit) ==
  /\ returned' = [op |-> "getLoadBearingFiles", arg |-> limit,
                  value |-> getLoadBearingFiles(graph, limit), graph |-> graph]
  /\ UNCHANGED queryFrame

\* The files a.ts, m.ts, z.ts are imported by some of B.ts, A.ts, ...
NamedPaths == 1..(NumImported + NumImporting)

\* addNode for the first n files of a list
RECURSIVE AddNodes(_, _)
AddNodes(order, n) ==
  IF n = 0 THEN EmptyGraph ELSE addNode(AddNodes(order, n - 1), order[n])

\* addEdge(importing file j, t) for j = 1..d
RECURSIVE AddImporters(_, _, _)
AddImporters(g, t, d) ==
  IF d = 0 THEN g ELSE addEdge(AddImporters(g, t, d - 1), NumImported + d, t)

\* ... for each of the first n imported files t, with d = inDegrees[t]
RECURSIVE AddFanIn(_, _, _)
AddFanIn(g, inDegrees, n) ==
  IF n = 0 THEN g ELSE AddImporters(AddFanIn(g, inDegrees, n - 1), n, inDegrees[n])

\* Graphs whose nodes were added in any order and whose files have any
\* number of importers, on a host of any locale.
InitQueries ==
  /\ graph \in { AddFanIn(AddNodes(order, Len(order)), inDegrees, NumImported) :
                    order \in UNION { Orderings(S) : S \in SUBSET NamedPaths },
                    inDegrees \in [1..NumImported -> 0..NumImporting] }
  /\ lastCall = Call("new", 0, 0)
  /\ opCount = 0
  /\ fs = InitialWorkspace
  /\ entries = NoEntries
  /\ locale \in Locales
  /\ ProcessInit

NextQueries ==
  \/ opCount < MaxQueryOps /\ CalculateMetrics
  \/ GetLeafFiles
  \/ \E limit \in 0..MaxLimit : GetLoadBearingFiles(limit)

SpecQueries == InitQueries /\ [][NextQueries]_vars

\* ------------------------------------------------ graphs with large fan-in
\* Two much-imported files and the files that import them.
HubA == 1
HubB == 2
Importer(i) == i + 2

\* The graph after addNode(HubA), addNode(HubB) and, for i = 1..m in order,
\* addEdge(Importer(i), HubA), then for i = 1..k, addEdge(Importer(i), HubB).
RECURSIVE Importers(_)
Importers(n) == IF n = 0 THEN <<>> ELSE Append(Importers(n - 1), Importer(n))

RECURSIVE ImporterNodes(_, _)
ImporterNodes(m, k) ==
  IF m = 0 THEN <<>>
  ELSE Append(ImporterNodes(m - 1, k),
              [filePath   |-> Importer(m),
               relativePath |-> getRelativePath(Importer(m)),
               imports    |-> IF m <= k THEN <<HubA, HubB>> ELSE <<HubA>>,
               importedBy |-> <<>>,
               metrics    |-> ZeroMetrics])

TwoHubs(m, k) ==
  LET hub(h, n) == [filePath |-> h, relativePath |-> getRelativePath(h),
                    imports |-> <<>>,
                    importedBy |-> Importers(n),
                    metrics |-> ZeroMetrics]
  IN  <<hub(HubA, m), hub(HubB, k)>> \o ImporterNodes(m, k)

StarPaths == 1..Importer(MaxImporters)

InitThreshold ==
  /\ graph \in { TwoHubs(m, 0) : m \in 0..MaxImporters }
  /\ lastCall = Call("new", 0, 0)
  /\ opCount = 0
  /\ SystemInit

NextThreshold ==
  \/ opCount < MaxStarOps /\ \E p \in StarPaths : AddEdge(p, HubA)
  \/ opCount < MaxStarOps /\ \E p \in StarPaths : RemoveNode(p)
  \/ opCount < MaxStarOps /\ \E p \in StarPaths : ClearEdgesFor(p)
  \/ opCount < MaxStarOps /\ CalculateMetrics

SpecThreshold == InitThreshold /\ [][NextThreshold]_vars

InitScore ==
  /\ graph \in { TwoHubs(m, k) : m \in 0..MaxFanIn, k \in 0..MaxFanIn }
  /\ Len(graph[2].importedBy) <= Len(graph[1].importedBy)
  /\ lastCall = Call("new", 0, 0)
  /\ opCount = 0
  /\ SystemInit

NextScore ==
  \/ opCount < MaxScoreOps /\ CalculateMetrics
  \/ opCount < MaxScoreOps /\ \E p \in {HubA, HubB} : RemoveNode(p)

SpecScore == InitScore /\ [][NextScore]_vars

\* ------------------------------------------------ the serialization API
\* the workspace folders a graph may have been constructed for
WorkspaceRoots == {"/work/app", "/work/lib"}

\* serialize() on a graph constructed for workspaceRoot, then
\* ImportGraph.deserialize on what it returned.
RoundTrip(workspaceRoot) ==
  /\ returned' = [op |-> "deserialize", arg |-> workspaceRoot,
                  value |-> deserialize(serialize(graph, workspaceRoot)),
                  graph |-> graph]
  /\ UNCHANGED queryFrame

InitSerial == Init

NextSerial ==
  \/ opCount < MaxSerialOps /\ \E p \in Paths : AddNode(p)
  \/ opCount < MaxSerialOps /\ \E a \in Paths, b \in Paths : AddEdge(a, b)
  \/ opCount < MaxSerialOps /\ \E p \in Paths : RemoveNode(p)
  \/ opCount < MaxSerialOps /\ \E p \in Paths : ClearEdgesFor(p)
  \/ opCount < MaxSerialOps /\ CalculateMetrics
  \/ \E root \in WorkspaceRoots : RoundTrip(root)

SpecSerial == InitSerial /\ [][NextSerial]_vars

\* ---------------------------------------------------- the importance tiers
\* A file with the given importance score.
ScoredNode(score) == [NewNode(1) EXCEPT !.metrics.importanceScore = score]

\* The status bar asks FileMetricsCalculator for the tier of a file and the
\* webview computes the tier of the same file's score for its file list.
GetImportanceTier(score) ==
  /\ returned' = [op |-> "getImportanceTier", arg |-> score,
                  value |-> getImportanceTier(ScoredNode(score)),
                  webview |-> webviewGetImportanceTier(
                                ScoredNode(score).metrics.importanceScore)]
  /\ UNCHANGED queryFrame

InitTiers == Init

NextTiers == \E score \in 0..MaxScore : GetImportanceTier(score)

SpecTiers == InitTiers /\ [][NextTiers]_vars

\* ------------------------------------------------------------------ claims
HasEdge(g, a, b) == HasNode(g, a) /\ Includes(getNode(g, a).imports, b)
HasBackEdge(g, a, b) == HasNode(g, b) /\ Includes(getNode(g, b).importedBy, a)

\* C1 -- Edge symmetry: after any sequence of addNode, addEdge, removeNode and
\* clearEdgesFor calls on an initially empty ImportGraph, for every pair of
\* nodes A and B (A = B included), B is in A.imports if and only if A is in
\* B.importedBy.
EdgeSymmetry ==
  \A i, j \in 1..Len(graph) :
    Includes(graph[i].imports, graph[j].filePath)
      <=> Includes(graph[j].importedBy, graph[i].filePath)

\* clearEdgesFor has just cleared a file that had imports, in a graph where
\* another file imports itself and a third edge survives.
EdgeSymmetry_Witness ==
  /\ lastCall.op = "clearEdgesFor"
  /\ HasNode(graphBeforeCall, lastCall.a)
  /\ getNode(graphBeforeCall, lastCall.a).imports # <<>>
  /\ \E p \in Paths : p # lastCall.a /\ HasEdge(graph, p, p) /\ HasBackEdge(graph, p, p)

\* C2 -- After removeNode(X) on any reachable graph, getNode(X) is undefined
\* and no remaining node's imports or importedBy list contains X.
RemoveNodeScrubs ==
  lastCall.op = "removeNode" =>
    /\ getNode(graph, lastCall.a) = Undefined
    /\ \A i \in 1..Len(graph) :
         /\ ~Includes(graph[i].imports, lastCall.a)
         /\ ~Includes(graph[i].importedBy, lastCall.a)

\* removeNode has just removed a file that both imported a file and was
\* imported by one, and those two files remain.
RemoveNodeScrubs_Witness ==
  /\ lastCall.op = "removeNode"
  /\ \E p, q \in Paths \ {lastCall.a} :
       /\ HasEdge(graphBeforeCall, lastCall.a, p)
       /\ HasEdge(graphBeforeCall, q, lastCall.a)
       /\ HasNode(graph, p) /\ HasNode(graph, q)

\* The facts the parser and resolver give for the workspace as it is now:
\* f parses, and t is the resolved identity of one of f's non-external imports.
Parses(f) == parseFile(fs, f).ok

ImportsResolved(f, t) ==
  /\ Parses(f)
  /\ \E i \in 1..Len(parseFile(fs, f).imports) :
       LET importInfo == parseFile(fs, f).imports[i]
       IN  ~importInfo.isExternal /\ importInfo.resolvedPath = t

ResolvedImports(f) == { t \in Paths : ImportsResolved(f, t) }

\* C3 -- Full build result: when buildGraph has run over a fixed set of files
\* with no concurrent change, the returned graph has an edge f -> t exactly
\* when f is an enumerated file that parsed and t is the resolved identity of
\* one of f's non-external imports (recorded on both endpoints); its nodes are
\* exactly the parsed files plus those targets, each once; and every node's
\* metrics count those edges (inDegree, outDegree, isLeaf).
BuildResult ==
  (lastCall.op = "buildGraph" /\ buildClean) =>
    LET Enumerated == findTypeScriptFiles(fs)
        Edge(f, t) == f \in Enumerated /\ ImportsResolved(f, t)
        Expected   == { f \in Enumerated : Parses(f) }
                        \cup { t \in Paths : \E f \in Paths : Edge(f, t) }
    IN  /\ NodePaths(graph) = Expected
        /\ Len(graph) = Cardinality(Expected)
        /\ \A f, t \in Paths :
             /\ HasEdge(graph, f, t) <=> Edge(f, t)
             /\ HasBackEdge(graph, f, t) <=> Edge(f, t)
        /\ \A i \in 1..Len(graph) :
             LET n == graph[i].filePath
                 inDegree == Cardinality({ f \in Paths : Edge(f, n) })
             IN  /\ graph[i].metrics.inDegree = inDegree
                 /\ graph[i].metrics.outDegree = Cardinality({ t \in Paths : Edge(n, t) })
                 /\ graph[i].metrics.isLeaf = (inDegree = 0)

\* A clean build has returned a graph that holds an edge a -> b with
\* a.outDegree = 1, b.inDegree = 1 and b not a leaf, next to a file that did
\* not parse and so has no node.
BuildResult_Witness ==
  /\ lastCall.op = "buildGraph" /\ buildClean
  /\ \E a, b \in Paths :
       /\ a # b
       /\ HasEdge(graph, a, b)
       /\ getNode(graph, a).metrics.outDegree = 1
       /\ getNode(graph, b).metrics.inDegree = 1
       /\ ~getNode(graph, b).metrics.isLeaf
  /\ \E f \in Paths : fs[f].exists /\ ~Parses(f) /\ ~HasNode(graph, f)

\* C4 -- Incremental re-pointing: when file a's resolvable local imports have
\* changed from the set S (a.imports before the call) to the set S', then
\* after updateFile(a) returns (and before another updateFile starts)
\* a.imports equals S', a is in the importedBy of every member of S', and a is
\* in the importedBy of no member of S \ S'.
UpdateRepoints ==
  (/\ lastCall.op = "updateFile" /\ updatePc = "idle"
   /\ updateClean /\ Parses(lastCall.a)) =>
    LET a  == lastCall.a
        S  == IF HasNode(graphBeforeCall, a)
                THEN SeqToSet(getNode(graphBeforeCall, a).imports) ELSE {}
        S1 == ResolvedImports(a)
    IN  /\ HasNode(graph, a)
        /\ SeqToSet(getNode(graph, a).imports) = S1
        /\ Len(getNode(graph, a).imports) = Cardinality(S1)
        /\ \A t \in S1 : HasBackEdge(graph, a, t)
        /\ \A t \in S \ S1 : ~HasBackEdge(graph, a, t)

\* updateFile(a) has returned after a's import changed from ./b to ./c: b is
\* still a node, a.imports = {c}, and c.importedBy contains a.
UpdateRepoints_Witness ==
  /\ lastCall.op = "updateFile" /\ updatePc = "idle"
  /\ updateClean /\ Parses(lastCall.a)
  /\ \E b, c \in Paths \ {lastCall.a} :
       /\ b # c
       /\ HasNode(graphBeforeCall, lastCall.a)
       /\ getNode(graphBeforeCall, lastCall.a).imports = <<b>>
       /\ getNode(graph, lastCall.a).imports = <<c>>
       /\ HasNode(graph, b)
       /\ HasBackEdge(graph, lastCall.a, c)

\* C8 -- Metrics exactness after builder operations: whenever buildGraph,
\* updateFile or removeFile has returned and no builder operation is in
\* flight, every node of the builder's graph has metrics.inDegree =
\* |importedBy|, metrics.outDegree = |imports| and metrics.isLeaf exactly when
\* inDegree = 0.
MetricsExact ==
  (/\ lastCall.op \in {"buildGraph", "updateFile", "removeFile"}
   /\ buildPc = "idle" /\ updatePc = "idle") =>
    \A i \in 1..Len(graph) :
      /\ graph[i].metrics.inDegree = Len(graph[i].importedBy)
      /\ graph[i].metrics.outDegree = Len(graph[i].imports)
      /\ graph[i].metrics.isLeaf = (graph[i].metrics.inDegree = 0)

\* removeFile has returned and nothing is in flight, and a remaining file that
\* the removed one imported went from inDegree 1 to inDegree 0 and became a
\* leaf.
MetricsExact_Witness ==
  /\ lastCall.op = "removeFile"
  /\ buildPc = "idle" /\ updatePc = "idle"
  /\ \E n \in Paths :
       /\ HasEdge(graphBeforeCall, lastCall.a, n)
       /\ getNode(graphBeforeCall, n).metrics.inDegree = 1
       /\ HasNode(graph, n)
       /\ getNode(graph, n).metrics.inDegree = 0
       /\ getNode(graph, n).metrics.isLeaf

\* The graph a build over the workspace as it is now returns.
CompletelyBuilt(g) ==
  /\ NodePaths(g) = { f \in Paths : Parses(f) \/ \E i \in Paths : ImportsResolved(i, f) }
  /\ \A f, t \in Paths :
       /\ HasEdge(g, f, t) <=> ImportsResolved(f, t)
       /\ HasBackEdge(g, f, t) <=> ImportsResolved(f, t)
  /\ g = calculateMetrics(g)

\* C5 -- Atomic swap: a reader (getFileMetrics, through getGraph) that runs
\* between the call of buildGraph and its return obtains either the graph that
\* was current before the call or the completely built new graph, never an
\* empty or partially populated one.
AtomicSwap ==
  lastRead.building =>
    \/ lastRead.graph = lastRead.before
    \/ CompletelyBuilt(lastRead.graph)

\* C6 -- Single writer: at most one of buildGraph, updateFile and removeFile
\* is in flight against the builder's graph; between the start and the return
\* of a buildGraph call no updateFile is in flight and no removeFile or
\* updateFile of a watcher flush has run.
SingleWriter ==
  buildPc # "idle" =>
    /\ updatePc = "idle"
    /\ lastCall.op \notin {"removeFile", "updateFile"}

\* C7 -- A build requested while one is running is dropped, not queued: a
\* runAnalysis call made while isAnalyzing leaves the graph, the build in
\* flight and the job queue alone and calls no buildGraph, and a build starts
\* only inside a runAnalysis call made while no analysis is running.
DroppedNotQueued ==
  [][/\ (analyses' # analyses /\ isAnalyzing) =>
          /\ dropped' = dropped + 1
          /\ UNCHANGED <<graph, lastCall, buildVars, buildCalls, isAnalyzing,
                         analysisPc, microQ>>
     /\ (buildCalls' # buildCalls \/ (buildPc = "idle" /\ buildPc' # "idle")) =>
          /\ analyses' # analyses
          /\ ~isAnalyzing
          /\ buildCalls' = buildCalls + 1]_vars

\* A runAnalysis call was dropped during the first analysis, which has since
\* finished, and buildGraph has been called once.
DroppedNotQueued_Witness ==
  /\ dropped = 1 /\ analyses = 2 /\ buildCalls = 1
  /\ ~isAnalyzing /\ analysisPc = "idle" /\ buildPc = "idle"
  /\ lastCall.op = "buildGraph"
  /\ microQ = <<>>

\* C9 -- Load-bearing threshold: after calculateMetrics, a node is flagged
\* isLoadBearing exactly when it has at least 5 incoming edges; a node whose
\* count removals have brought below 5 is flagged false again.
LoadBearingAtFive ==
  lastCall.op = "calculateMetrics" =>
    \A i \in 1..Len(graph) :
      graph[i].metrics.isLoadBearing = (Len(graph[i].importedBy) >= 5)

\* calculateMetrics has just run on a graph whose hub has 4 importers left and
\* was flagged load-bearing by an earlier calculateMetrics: the flag is false.
LoadBearingAtFive_Witness ==
  /\ lastCall.op = "calculateMetrics"
  /\ HasNode(graph, HubA) /\ HasNode(graphBeforeCall, HubA)
  /\ Len(getNode(graph, HubA).importedBy) = 4
  /\ getNode(graphBeforeCall, HubA).metrics.isLoadBearing
  /\ ~getNode(graph, HubA).metrics.isLoadBearing

\* round(100 * a / b) for integers a >= 0, b >= 1: the nearest integer, a
\* half rounded up.
RoundedPercent(a, b) == (200 * a + b) \div (2 * b)

\* C10 -- Importance score: after calculateMetrics every node's
\* importanceScore equals round(100 * inDegree / max(1, maximum inDegree over
\* all nodes)), is an integer in 0..100, and is 0 for every node of a graph
\* with no edges.
ScoreIsRoundedPercent ==
  lastCall.op = "calculateMetrics" =>
    LET maxIn == MaxOf({1} \cup { Len(graph[i].importedBy) : i \in 1..Len(graph) })
    IN  \A i \in 1..Len(graph) :
          /\ graph[i].metrics.importanceScore
               = RoundedPercent(Len(graph[i].importedBy), maxIn)
          /\ graph[i].metrics.importanceScore \in 0..100
          /\ (\A j \in 1..Len(graph) : graph[j].importedBy = <<>>)
               => graph[i].metrics.importanceScore = 0

\* ------------------------------------------------------ the file watcher
\* The flush that served the events in "accepted" has made all its calls.
FlushDone == debounceTimer = "fired" /\ flushPc = "idle"

\* how many times the last flush made the call op(p)
CallCount(op, p) ==
  Cardinality({ i \in 1..Len(flushCalls) : flushCalls[i] = Call(op, p, 0) })

\* positions in the window of events of the given kinds for path p
EventsAt(kinds, p) ==
  { i \in 1..Len(accepted) : accepted[i].path = p /\ accepted[i].kind \in kinds }

\* C11 -- Burst coalescing: when create/change events for a path, and no
\* delete for it, were accepted before a flush ran, that flush called
\* updateFile for the path exactly once.
BurstCoalesced ==
  FlushDone =>
    \A p \in Paths :
      (EventsAt({"create", "change"}, p) # {} /\ EventsAt({"delete"}, p) = {})
        => CallCount("updateFile", p) = 1

\* A flush has served a burst of three create/change events for one path.
BurstCoalesced_Witness ==
  /\ FlushDone
  /\ \E p \in Paths :
       /\ Cardinality(EventsAt({"create", "change"}, p)) = 3
       /\ EventsAt({"change"}, p) # {}
       /\ CallCount("updateFile", p) = 1

\* C12 -- Delete cancels a pending update: when a delete for a path was
\* accepted after a create/change for it and no create/change for it followed
\* before the flush, the flush called removeFile for the path and did not call
\* updateFile for it.
DeleteCancelsUpdate ==
  FlushDone =>
    \A p \in Paths :
      (\E j \in EventsAt({"delete"}, p) :
         /\ \E i \in EventsAt({"create", "change"}, p) : i < j
         /\ \A k \in EventsAt({"create", "change"}, p) : k < j)
        => /\ CallCount("removeFile", p) = 1
           /\ CallCount("updateFile", p) = 0

\* A flush has served a change of a path followed by its delete, and an
\* update of another path.
DeleteCancelsUpdate_Witness ==
  /\ FlushDone
  /\ \E p \in Paths, q \in Paths :
       /\ p # q
       /\ accepted = <<[kind |-> "change", path |-> p], [kind |-> "change", path |-> q],
                       [kind |-> "delete", path |-> p]>>
       /\ flushCalls = <<Call("removeFile", p, 0), Call("updateFile", q, 0)>>

\* C13 -- Delete wins: a path that was in both pending sets when the flush
\* ran was removed by the flush and not passed to updateFile.
DeleteWins ==
  \A p \in Paths :
    (debounceTimer = "fired" /\ Includes(updates, p) /\ CallCount("removeFile", p) > 0)
      => CallCount("updateFile", p) = 0

\* C14 -- Flush ordering: within one flush every removeFile call comes
\* before any updateFile call.
DeletesBeforeUpdates ==
  \A i, j \in 1..Len(flushCalls) :
    (flushCalls[i].op = "removeFile" /\ flushCalls[j].op = "updateFile") => i < j

\* A flush has made two removeFile calls and then an updateFile call.
DeletesBeforeUpdates_Witness ==
  /\ FlushDone
  /\ Len(flushCalls) = 3
  /\ flushCalls[1].op = "removeFile" /\ flushCalls[2].op = "removeFile"
  /\ flushCalls[3].op = "updateFile"
\* ------------------------------------------------------ processing files
\* the imports of parsed file f that carry an edge: non-external, resolved
EdgeImports(parsed) ==
  { parsed.imports[i].resolvedPath :
      i \in { k \in 1..Len(parsed.imports) :
                ~parsed.imports[k].isExternal /\ parsed.imports[k].resolvedPath # 0 } }

\* C15 -- Partial-failure tolerance of a full build: whatever files fail to
\* parse, a build that has entered its loop always has its next step scheduled
\* and returns; in the returned graph every enumerated file that parsed has its
\* node, its edges and its metrics, and a file that failed has no outgoing
\* edge and has a node only as the target of another file's import.
BuildToleratesFailures ==
  /\ buildPc = "loop" => Includes(microQ, "build")
  /\ (lastCall.op = "buildGraph" /\ buildClean) =>
       \A f \in SeqToSet(files) :
         LET parsed    == parseFile(fs, f)
             importers == { i \in SeqToSet(files) :
                              parseFile(fs, i).ok /\ f \in EdgeImports(parseFile(fs, i)) }
         IN  IF parsed.ok
               THEN /\ HasNode(graph, f)
                    /\ SeqToSet(getNode(graph, f).imports) = EdgeImports(parsed)
                    /\ SeqToSet(getNode(graph, f).importedBy) = importers
                    /\ getNode(graph, f).metrics.outDegree = Cardinality(EdgeImports(parsed))
                    /\ getNode(graph, f).metrics.inDegree = Cardinality(importers)
                    /\ getNode(graph, f).metrics.isLeaf = (importers = {})
               ELSE /\ \A t \in Paths : ~HasEdge(graph, f, t)
                    /\ HasNode(graph, f) <=> importers # {}
                    /\ HasNode(graph, f) =>
                         /\ getNode(graph, f).imports = <<>>
                         /\ getNode(graph, f).metrics.outDegree = 0

\* A build has returned over a workspace of three files of which two failed
\* to parse: one is absent from the graph, the other is there only as the
\* target of the third file's import.
BuildToleratesFailures_Witness ==
  /\ lastCall.op = "buildGraph" /\ buildClean /\ buildPc = "idle"
  /\ Len(files) = 3
  /\ \E a, b, c \in Paths :
       /\ a # b /\ b # c /\ a # c
       /\ ~parseFile(fs, a).ok /\ ~parseFile(fs, b).ok /\ parseFile(fs, c).ok
       /\ ~HasNode(graph, a)
       /\ HasNode(graph, b) /\ getNode(graph, b).importedBy = <<c>>
       /\ getNode(graph, c).metrics.outDegree = 1

\* C16 -- Edge creation rule: processing a file adds the edge f -> t exactly
\* for the imports of f that are non-external and carry a resolved path t, and
\* adds nodes only for f and those targets; external and unresolved imports
\* stay in the parsed import list; and "import type" declarations give the
\* same graph as value imports.
EdgeCreationRule ==
  [][((buildPc = "findFiles" /\ buildPc' = "loop")
        \/ (buildPc = "loop" /\ fileIdx' = fileIdx + 1)) =>
       LET f      == files'[fileIdx']
           parsed == parseFile(fs, f)
           asValueImports ==
             [fs EXCEPT ![f].imports = [i \in 1..Len(@) |-> ValueImport(@[i])]]
       IN  /\ parsed.ok =>
                /\ Len(parsed.imports) = Len(fs[f].imports)
                /\ \A i \in 1..Len(parsed.imports) :
                     parsed.imports[i].source = fs[f].imports[i]
           /\ \A t \in Paths :
                HasEdge(graph', f, t) <=>
                  (HasEdge(graph, f, t) \/ (parsed.ok /\ t \in EdgeImports(parsed)))
           /\ NodePaths(graph') =
                NodePaths(graph) \cup (IF parsed.ok THEN {f} \cup EdgeImports(parsed) ELSE {})
           /\ graph' = processFile(graph, asValueImports, f)]_vars

\* A build has returned over a workspace in which one file has an external
\* import and an "import type" of an existing file, and another file imports
\* a path that does not resolve: the graph has the type-only edge and nothing
\* for the other two imports.
EdgeCreationRule_Witness ==
  /\ lastCall.op = "buildGraph" /\ buildClean
  /\ \E f, t, u \in Paths :
       /\ f # t /\ f # u /\ t # u
       /\ fs[f] = SourceFile(<<ExternalSource, TypeOnly(RelativeSource(t))>>)
       /\ fs[t] = SourceFile(<<RelativeSource(u)>>)
       /\ fs[u] = Absent
       /\ Len(parseFile(fs, t).imports) = 1
       /\ parseFile(fs, t).imports[1].resolvedPath = 0
       /\ NodePaths(graph) = {f, t}
       /\ getNode(graph, f).imports = <<t>>
       /\ getNode(graph, t).imports = <<>>
\* ------------------------------------------------------- file resolution
\* the order the specification gives: the bare path, the path with each
\* extension, the index files
PriorityOrder ==
  <<BasePath(""), BasePath(".ts"), BasePath(".tsx"), BasePath(".js"), BasePath(".jsx"),
    IndexPath(".ts"), IndexPath(".tsx"), IndexPath(".js"), IndexPath(".jsx")>>

\* C17 -- Resolution priority order: resolution returns the first existing
\* regular file in the order bare path, path + .ts, .tsx, .js, .jsx, then
\* index.ts, index.tsx, index.js, index.jsx inside the path (nothing when none
\* is a regular file).
ResolutionPriority ==
  returned.op = "resolveRelativeImport" =>
    LET first == FirstIndex({ k \in 1..Len(PriorityOrder) :
                              entries[PriorityOrder[k]] = "file" })
    IN  returned.value = IF first = 0 THEN NotFound ELSE PriorityOrder[first]

\* C18 -- Extension beats index file: when a file with an extension appended
\* to the path exists, resolution returns the first such file (x.ts when x.ts
\* exists) and never an index file inside the path.
ExtensionBeatsIndex ==
  returned.op = "resolveRelativeImport" =>
    /\ entries[BasePath(".ts")] = "file" => returned.value = BasePath(".ts")
    /\ (\E i \in 1..Len(IndexExtensions) : entries[BasePath(IndexExtensions[i])] = "file")
         => /\ returned.value # NotFound
            /\ ~returned.value.index
            /\ entries[returned.value] = "file"

\* x is a directory holding index.ts and index.tsx, x.ts is a file: ./x
\* resolved to x.ts.
ExtensionBeatsIndex_Witness ==
  /\ returned.op = "resolveRelativeImport"
  /\ entries[BasePath("")] = "directory"
  /\ entries[BasePath(".ts")] = "file"
  /\ entries[IndexPath(".ts")] = "file"
  /\ entries[IndexPath(".tsx")] = "file"
  /\ returned.value = BasePath(".ts")
\* ------------------------------------------------------- ImportGraph queries
\* C19 -- getLeafFiles returns exactly the nodes whose isLeaf metric is true,
\* each once, in ascending order of relativePath, whatever the order in which
\* the nodes were added.
LeafFilesSortedByPath ==
  returned.op = "getLeafFiles" =>
    LET g == returned.graph
        v == returned.value
    IN  /\ SeqToSet(v) = { n \in SeqToSet(g) : n.metrics.isLeaf }
        /\ Len(v) = Cardinality(SeqToSet(v))
        /\ \A i, j \in 1..Len(v) :
             i < j => CompareSeq(v[i].relativePath, v[j].relativePath) < 0

\* C20 -- getLoadBearingFiles(limit) returns at most limit nodes, each with
\* inDegree > 0, in non-increasing order of inDegree, and leaves out no node
\* with a larger inDegree than a node it returns.
LoadBearingFilesRanked ==
  returned.op = "getLoadBearingFiles" =>
    LET g == returned.graph
        v == returned.value
    IN  /\ Len(v) <= returned.arg
        /\ Len(v) = Cardinality(SeqToSet(v))
        /\ SeqToSet(v) \subseteq SeqToSet(g)
        /\ \A i \in 1..Len(v) : v[i].metrics.inDegree > 0
        /\ \A i, j \in 1..Len(v) :
             i < j => v[i].metrics.inDegree >= v[j].metrics.inDegree
        /\ \A n \in SeqToSet(g) \ SeqToSet(v) :
             \A i \in 1..Len(v) : n.metrics.inDegree <= v[i].metrics.inDegree

\* getLoadBearingFiles(2) on a graph with three imported files of inDegree 1,
\* 2 and 1, added in that order: the file with inDegree 2 comes first and the
\* last file is left out.
LoadBearingFilesRanked_Witness ==
  /\ returned.op = "getLoadBearingFiles" /\ returned.arg = 2
  /\ Len(returned.value) = 2
  /\ Len(SelectSeq(returned.graph, LAMBDA n : n.metrics.inDegree > 0)) = 3
  /\ returned.value[1].metrics.inDegree = 2
  /\ returned.value[2].metrics.inDegree = 1
  /\ SelectSeq(returned.graph, LAMBDA n : n.metrics.inDegree > 0)[1].metrics.inDegree = 1

\* ---------------------------------------------- ImportGraph: algebraic laws
\* C21 -- calculateMetrics is idempotent: calling it again on the graph it has
\* just left, with no mutation in between, leaves every node's metrics (and
\* the rest of the graph) as they were after the first call.
MetricsIdempotent ==
  lastCall.op = "calculateMetrics" => calculateMetrics(graph) = graph

\* calculateMetrics was called twice in a row on a graph with an edge: the
\* second call met the metrics of the first and left them as they were.
MetricsIdempotent_Witness ==
  /\ lastCall.op = "calculateMetrics"
  /\ graphBeforeCall = graph
  /\ \E i \in 1..Len(graph) :
       graph[i].metrics.inDegree > 0 /\ graph[i].metrics.importanceScore = 100
  /\ \E i \in 1..Len(graph) : graph[i].metrics.outDegree > 0

NoDuplicates(s) == Len(s) = Cardinality(SeqToSet(s))

\* C22 -- addNode and addEdge are idempotent: addNode(X) on a graph that holds
\* X, and addEdge(A, B) on a graph that holds the edge, leave the graph exactly
\* as it was (edges and metrics are not reset); no imports or importedBy list
\* of a reachable graph holds a file twice, and the degrees calculateMetrics
\* stores count distinct files.
AddIdempotent ==
  /\ (lastCall.op = "addNode" /\ HasNode(graphBeforeCall, lastCall.a))
       => graph = graphBeforeCall
  /\ (lastCall.op = "addEdge" /\ HasEdge(graphBeforeCall, lastCall.a, lastCall.b))
       => graph = graphBeforeCall
  /\ lastCall.op = "addNode" => addNode(graph, lastCall.a) = graph
  /\ lastCall.op = "addEdge" => addEdge(graph, lastCall.a, lastCall.b) = graph
  /\ \A i \in 1..Len(graph) :
       NoDuplicates(graph[i].imports) /\ NoDuplicates(graph[i].importedBy)
  /\ lastCall.op = "calculateMetrics" =>
       \A i \in 1..Len(graph) :
         /\ graph[i].metrics.inDegree = Cardinality(SeqToSet(graph[i].importedBy))
         /\ graph[i].metrics.outDegree = Cardinality(SeqToSet(graph[i].imports))

\* addEdge(A, B) was repeated on a graph that held the edge and the metrics
\* calculateMetrics had stored for it: A still imports B once and both keep
\* their metrics.
AddIdempotent_Witness ==
  /\ lastCall.op = "addEdge" /\ lastCall.a # lastCall.b
  /\ HasEdge(graphBeforeCall, lastCall.a, lastCall.b)
  /\ getNode(graphBeforeCall, lastCall.b).metrics.inDegree = 1
  /\ getNode(graph, lastCall.a).imports = <<lastCall.b>>
  /\ getNode(graph, lastCall.b).importedBy = <<lastCall.a>>
  /\ getNode(graph, lastCall.b).metrics.inDegree = 1
  /\ getNode(graph, lastCall.a).metrics.outDegree = 1

\* What clearEdgesFor(X) does to the files X imported, to X.imports and to the
\* node X itself, X being the argument of the call made last.
ClearedOutgoing ==
  LET X == lastCall.a
  IN  /\ HasNode(graph, X)
      /\ getNode(graph, X).imports = <<>>
      /\ \A t \in SeqToSet(getNode(graphBeforeCall, X).imports) :
           HasNode(graph, t) /\ ~Includes(getNode(graph, t).importedBy, X)

\* C25 as stated -- clearEdgesFor(X) removes X from the importedBy list of
\* every node X imported, empties X.imports, keeps X as a node, and leaves X's
\* own importedBy list unchanged.
ClearEdgesKeepsImportedBy ==
  (lastCall.op = "clearEdgesFor" /\ HasNode(graphBeforeCall, lastCall.a)) =>
    /\ ClearedOutgoing
    /\ getNode(graph, lastCall.a).importedBy
         = getNode(graphBeforeCall, lastCall.a).importedBy

\* C25 -- clearEdgesFor(X) removes X from the importedBy list of every node X
\* imported, empties X.imports and keeps X as a node; X's own importedBy list
\* keeps every other file, in the same order, and loses X itself when X
\* imported itself.
ClearEdgesKeepsOtherImporters ==
  (lastCall.op = "clearEdgesFor" /\ HasNode(graphBeforeCall, lastCall.a)) =>
    /\ ClearedOutgoing
    /\ getNode(graph, lastCall.a).importedBy
         = FilterOut(getNode(graphBeforeCall, lastCall.a).importedBy, lastCall.a)
    /\ ~HasEdge(graphBeforeCall, lastCall.a, lastCall.a) =>
         getNode(graph, lastCall.a).importedBy
           = getNode(graphBeforeCall, lastCall.a).importedBy

\* clearEdgesFor(X) on a file that imported itself and another file and was
\* imported by a third: the third file is all that is left in X.importedBy.
ClearEdgesKeepsOtherImporters_Witness ==
  /\ lastCall.op = "clearEdgesFor"
  /\ \E p, q \in Paths \ {lastCall.a} :
       /\ HasEdge(graphBeforeCall, lastCall.a, lastCall.a)
       /\ HasEdge(graphBeforeCall, lastCall.a, p)
       /\ Len(getNode(graphBeforeCall, lastCall.a).importedBy) = 2
       /\ getNode(graph, lastCall.a).importedBy = <<q>>
       /\ getNode(graph, p).importedBy = <<>>

EdgeWrites == {"addNode", "addEdge", "removeNode", "clearEdgesFor"}

\* C29 -- Metrics are decoupled from edge writes: addNode, addEdge, removeNode
\* and clearEdgesFor leave the stored metrics of every node that was in the
\* graph and remains in it as they were (a node they create gets the zero
\* metrics); only calculateMetrics changes stored metrics.
MetricsDecoupled ==
  /\ lastCall.op \in EdgeWrites =>
       \A i \in 1..Len(graph) :
         IF HasNode(graphBeforeCall, graph[i].filePath)
           THEN graph[i].metrics = getNode(graphBeforeCall, graph[i].filePath).metrics
           ELSE graph[i].metrics = ZeroMetrics
  /\ (\E i \in 1..Len(graph) :
        /\ HasNode(graphBeforeCall, graph[i].filePath)
        /\ graph[i].metrics # getNode(graphBeforeCall, graph[i].filePath).metrics)
       => lastCall.op = "calculateMetrics"

\* removeNode has taken away the only importer of a file whose stored metrics
\* still say inDegree 1 and score 100: they disagree with its edge lists until
\* the next calculateMetrics.
MetricsDecoupled_Witness ==
  /\ lastCall.op = "removeNode"
  /\ \E i \in 1..Len(graph) :
       /\ graph[i].importedBy = <<>>
       /\ graph[i].metrics.inDegree = 1
       /\ graph[i].metrics.importanceScore = 100
       /\ ~graph[i].metrics.isLeaf

\* The one-to-one renamings of the paths, into a set with one more path.
RenameTargets == 1..(NumPaths + 1)
Renamings ==
  { pi \in [Paths -> RenameTargets] : \A p, q \in Paths : pi[p] = pi[q] => p = q }

RECURSIVE RenameList(_, _)
RenameList(s, pi) ==
  IF s = <<>> THEN <<>>
  ELSE <<pi[Head(s)]>> \o RenameList(Tail(s), pi)

\* The graph g with every path p replaced by pi[p]: the nodes in the same
\* insertion order, the edge lists in the same order, the stored metrics kept.
RECURSIVE Rename(_, _)
Rename(g, pi) ==
  IF g = <<>> THEN <<>>
  ELSE <<[filePath     |-> pi[Head(g).filePath],
          relativePath |-> getRelativePath(pi[Head(g).filePath]),
          imports      |-> RenameList(Head(g).imports, pi),
          importedBy   |-> RenameList(Head(g).importedBy, pi),
          metrics      |-> Head(g).metrics]>> \o Rename(Tail(g), pi)

\* C27 -- The metrics depend only on the degree structure: for every
\* one-to-one renaming of the paths of a graph, calculateMetrics on the renamed
\* graph stores for each renamed node the importanceScore, inDegree, outDegree,
\* isLeaf and isLoadBearing it stores for the original node.
MetricsRenamingInvariant ==
  lastCall.op = "calculateMetrics" =>
    \A pi \in Renamings :
      LET renamed == calculateMetrics(Rename(graphBeforeCall, pi))
      IN  /\ Len(renamed) = Len(graph)
          /\ \A i \in 1..Len(graph) :
               /\ HasNode(renamed, pi[graph[i].filePath])
               /\ getNode(renamed, pi[graph[i].filePath]).metrics = graph[i].metrics

\* calculateMetrics on a graph of three files with the scores 100, 50 and 0.
MetricsRenamingInvariant_Witness ==
  /\ lastCall.op = "calculateMetrics"
  /\ Len(graph) = NumPaths
  /\ { graph[i].metrics.importanceScore : i \in 1..Len(graph) } = {0, 50, 100}
  /\ \E pi \in Renamings : \A p \in Paths : pi[p] # p

\* ------------------------------------------------------------- failed builds
\* buildGraph was called last on the builder and has raised: findFiles rejected
\* and neither a watcher flush nor another build has touched the graph since.
BuildFailed ==
  buildCalls > 0 /\ buildPc = "idle" /\ lastCall.op = "new" /\ buildClean

\* C30 -- A failed build does not destroy the previous view: when buildGraph
\* has raised before completing, getGraph() returns the graph that was current
\* before the call, with its nodes, edges and metrics.
FailedBuildKeepsGraph == BuildFailed => graph = graphBeforeBuild

\* ----------------------------------------------------------- importance tiers
\* C28 -- Importance tiering: for every score in 0..100 getImportanceTier
\* returns critical if score >= 75, high if 50 <= score < 75, medium if
\* 25 <= score < 50 and low otherwise, and the tier function of the webview
\* returns the same band for the same score.
ImportanceTiers ==
  returned.op = "getImportanceTier" =>
    LET score == returned.arg
    IN  /\ score >= 75 => returned.value = "critical"
        /\ (50 <= score /\ score < 75) => returned.value = "high"
        /\ (25 <= score /\ score < 50) => returned.value = "medium"
        /\ score < 25 => returned.value = "low"
        /\ returned.webview = returned.value

\* The tier of a file with score 75, the lowest critical one, was asked for.
ImportanceTiers_Witness ==
  /\ returned.op = "getImportanceTier"
  /\ returned.arg = 75
  /\ returned.value = "critical"
  /\ returned.webview = "critical"

\* -------------------------------------------------------------- serialization
\* C23 -- Serialization round trip: for every reachable graph g,
\* deserialize(serialize(g)) has the workspaceRoot of g, the node set of g, and
\* for every node the imports, importedBy and metrics it has in g.
RoundTripLossless ==
  returned.op = "deserialize" =>
    LET g == returned.graph
        d == returned.value
    IN  /\ d.workspaceRoot = returned.arg
        /\ NodePaths(d.nodes) = NodePaths(g)
        /\ Len(d.nodes) = Len(g)
        /\ \A p \in NodePaths(g) :
             /\ getNode(d.nodes, p).imports = getNode(g, p).imports
             /\ getNode(d.nodes, p).importedBy = getNode(g, p).importedBy
             /\ getNode(d.nodes, p).metrics = getNode(g, p).metrics

\* A graph of two files, one importing the other, with the metrics
\* calculateMetrics stored, went through serialize and deserialize.
RoundTripLossless_Witness ==
  /\ returned.op = "deserialize"
  /\ returned.arg = "/work/lib"
  /\ Len(returned.graph) = 2
  /\ \E a, b \in Paths :
       /\ a # b
       /\ HasEdge(returned.value.nodes, a, b)
       /\ HasBackEdge(returned.value.nodes, a, b)
       /\ getNode(returned.value.nodes, b).metrics.importanceScore = 100
       /\ getNode(returned.value.nodes, a).metrics.outDegree = 1

\* ------------------------------------------------- the graph-changed callback
\* C24 -- Graph-changed notification: a flush that applied at least one
\* pending update or delete invokes the onUpdate callback exactly once, after
\* all its removeFile and updateFile calls have been made and have returned,
\* and not before; a flush with nothing pending does not invoke it.
NotifiedOncePerFlush ==
  /\ FlushDone => Len(onUpdateCalls) = (IF flushCalls # <<>> THEN 1 ELSE 0)
  /\ flushPc = "updating" => onUpdateCalls = <<>>
  /\ \A i \in 1..Len(onUpdateCalls) :
       /\ onUpdateCalls[i].after = flushCalls
       /\ ~onUpdateCalls[i].inFlight
       /\ \A p \in SeqToSet(updates) : CallCount("updateFile", p) > 0

\* A flush that removed one file and updated two others has invoked the
\* callback once, after its three builder calls.
NotifiedOncePerFlush_Witness ==
  /\ FlushDone
  /\ Len(flushCalls) = 3
  /\ flushCalls[1].op = "removeFile"
  /\ flushCalls[2].op = "updateFile" /\ flushCalls[3].op = "updateFile"
  /\ onUpdateCalls = <<Notification(flushCalls, "idle")>>

\* C26 -- Failure isolation inside a flush: when updateFile raises for a
\* pending path the exception does not escape flushUpdates: the flush goes on
\* to call updateFile once for every other pending path and invokes the
\* onUpdate callback once at its end.
FailureIsolated ==
  (FlushDone /\ caught # <<>>) =>
    /\ updIdx = Len(updates)
    /\ \A p \in SeqToSet(updates) : CallCount("updateFile", p) = 1
    /\ SeqToSet(caught) \subseteq SeqToSet(updates)
    /\ onUpdateCalls = <<Notification(flushCalls, "idle")>>

\* updateFile raised for the first of two pending paths; the flush then
\* updated the second one, which is in the graph with fresh metrics, and
\* invoked the callback.
FailureIsolated_Witness ==
  /\ FlushDone
  /\ Len(updates) = 2
  /\ caught = <<updates[1]>>
  /\ lastCall = Call("updateFile", updates[2], 0)
  /\ HasNode(graph, updates[2])
  /\ graph = calculateMetrics(graph)
  /\ Len(onUpdateCalls) = 1

\* ------------------------------------------------------------------ self-edges
\* how many times path x is in the list s
Occurrences(s, x) == Cardinality({ i \in 1..Len(s) : s[i] = x })

\* C33 -- Self-edges are accepted and counted: addEdge(X, X) puts X once into
\* X.imports and once into X.importedBy; calculateMetrics counts a self-edge
\* once in X.inDegree and once in X.outDegree, so that X is not a leaf; and
\* removeNode(X) or clearEdgesFor(X) leaves no list that holds X in a pair
\* with itself.
SelfEdgesCounted ==
  /\ (lastCall.op = "addEdge" /\ lastCall.a = lastCall.b) =>
       /\ Occurrences(getNode(graph, lastCall.a).imports, lastCall.a) = 1
       /\ Occurrences(getNode(graph, lastCall.a).importedBy, lastCall.a) = 1
  /\ lastCall.op = "calculateMetrics" =>
       \A i \in 1..Len(graph) :
         LET X == graph[i].filePath
             others(s) == Cardinality(SeqToSet(s) \ {X})
         IN  HasEdge(graph, X, X) =>
               /\ graph[i].metrics.inDegree = others(graph[i].importedBy) + 1
               /\ graph[i].metrics.outDegree = others(graph[i].imports) + 1
               /\ ~graph[i].metrics.isLeaf
  /\ (lastCall.op \in {"removeNode", "clearEdgesFor"}
        /\ HasEdge(graphBeforeCall, lastCall.a, lastCall.a)) =>
       /\ ~HasEdge(graph, lastCall.a, lastCall.a)
       /\ ~HasBackEdge(graph, lastCall.a, lastCall.a)
       /\ lastCall.op = "removeNode" =>
            \A i \in 1..Len(graph) :
              /\ ~Includes(graph[i].imports, lastCall.a)
              /\ ~Includes(graph[i].importedBy, lastCall.a)

\* calculateMetrics on a graph where a file imports itself and nothing else
\* touches it: inDegree 1, outDegree 1, not a leaf, score 100.
SelfEdgesCounted_Witness ==
  /\ lastCall.op = "calculateMetrics"
  /\ \E i \in 1..Len(graph) :
       /\ graph[i].imports = <<graph[i].filePath>>
       /\ graph[i].importedBy = <<graph[i].filePath>>
       /\ graph[i].metrics.inDegree = 1 /\ graph[i].metrics.outDegree = 1
       /\ ~graph[i].metrics.isLeaf

\* ------------------------------------------------------- dangling references
\* C36 -- No dangling references: in every state reached by addNode, addEdge,
\* removeNode and clearEdgesFor, every path in some node's imports or
\* importedBy list is itself a node of the graph.
NoDanglingReferences ==
  \A i \in 1..Len(graph) :
    /\ SeqToSet(graph[i].imports) \subseteq NodePaths(graph)
    /\ SeqToSet(graph[i].importedBy) \subseteq NodePaths(graph)

\* removeNode has removed a file that imported a file and was imported by
\* another one; both neighbours remain and still have an edge between them.
NoDanglingReferences_Witness ==
  /\ lastCall.op = "removeNode"
  /\ \E p, q \in Paths \ {lastCall.a} :
       /\ p # q
       /\ HasEdge(graphBeforeCall, lastCall.a, p)
       /\ HasEdge(graphBeforeCall, q, lastCall.a)
       /\ ~HasNode(graph, lastCall.a)
       /\ HasEdge(graph, q, p) /\ HasBackEdge(graph, q, p)

\* ------------------------------------------------------------ the top score
\* C40 -- Top score: after calculateMetrics on a graph with at least one edge
\* every node with the maximum inDegree has importanceScore 100 and is in the
\* critical tier, and of two nodes the one with the larger inDegree never has
\* the smaller importanceScore.
TopScoreIsHundred ==
  (lastCall.op = "calculateMetrics"
     /\ \E i \in 1..Len(graph) : graph[i].importedBy # <<>>) =>
    /\ \A i \in 1..Len(graph) :
         (\A j \in 1..Len(graph) :
            Len(graph[j].importedBy) <= Len(graph[i].importedBy))
           => /\ graph[i].metrics.importanceScore = 100
              /\ getImportanceTier(graph[i]) = "critical"
    /\ \A i, j \in 1..Len(graph) :
         graph[i].metrics.inDegree > graph[j].metrics.inDegree
           => graph[i].metrics.importanceScore >= graph[j].metrics.importanceScore

\* calculateMetrics on a graph whose most imported file has 40 importers and
\* whose second has 23: the scores are 100 and 57, the importers have 0.
TopScoreIsHundred_Witness ==
  /\ lastCall.op = "calculateMetrics"
  /\ HasNode(graph, HubA) /\ HasNode(graph, HubB)
  /\ getNode(graph, HubA).metrics.inDegree = 40
  /\ getNode(graph, HubB).metrics.inDegree = 23
  /\ getNode(graph, HubA).metrics.importanceScore = 100
  /\ getNode(graph, HubB).metrics.importanceScore = 57

\* ------------------------------------------------------ the in-progress guard
\* C38 -- The in-progress guard is always released: isAnalyzing is set exactly
\* while a runAnalysis call is in flight; when a call finishes, whether its
\* steps succeeded or findFiles or the navigation analysis raised, isAnalyzing
\* is false; and a runAnalysis call made when no call is in flight starts a
\* build and is not dropped.
GuardReleased ==
  /\ [](isAnalyzing <=> analysisPc # "idle")
  /\ [][/\ (analysisPc # "idle" /\ analysisPc' = "idle") => ~isAnalyzing'
        /\ (analyses' # analyses /\ analysisPc = "idle") =>
             /\ buildCalls' = buildCalls + 1
             /\ dropped' = dropped
             /\ isAnalyzing' /\ buildPc' = "findFiles"]_vars

\* The first analysis ended with findFiles rejecting (no watcher event came
\* and the graph stayed empty); the second runAnalysis call was not dropped
\* and its build has completed.
GuardReleased_Witness ==
  /\ analyses = 2 /\ buildCalls = 2 /\ dropped = 0
  /\ events = 0
  /\ graphBeforeBuild = EmptyGraph
  /\ lastCall.op = "buildGraph" /\ Len(graph) = NumPaths
  /\ ~isAnalyzing /\ analysisPc = "idle"

\* ------------------------------------------------- order of the ranked list
\* The graphs with the nodes, edges and metrics of g, populated in any order.
Repopulated(g) ==
  { [k \in 1..Len(g) |-> g[order[k]]] : order \in Orderings(1..Len(g)) }

\* C32 -- Deterministic tie order of the load-bearing list: for two graphs
\* with the same nodes and edges that were populated in different orders,
\* getLoadBearingFiles(limit) returns the same sequence; nodes of equal
\* inDegree are ordered by a key of their own, not by insertion order.
LoadBearingOrderDeterministic ==
  returned.op = "getLoadBearingFiles" =>
    \A g2 \in Repopulated(returned.graph) :
      getLoadBearingFiles(g2, returned.arg) = returned.value

\* ------------------------------------------------------ the debounce window
\* DEBOUNCE_MS, in ticks of the host's clock
DebounceTicks == 2
MaxDebounceEvents == 3

Later(t) == IF t < DebounceTicks THEN t + 1 ELSE DebounceTicks

RECURSIVE Aged(_)
Aged(armed) ==
  IF armed = <<>> THEN <<>>
  ELSE <<Later(Head(armed))>> \o Aged(Tail(armed))

\* One tick passes between two tasks of the event loop; a wait of
\* DebounceTicks stands for any wait of the full delay or longer.
Tick ==
  /\ MacrotaskMayRun
  /\ timers' = Aged(timers)
  /\ quiet' = Later(quiet)
  /\ UNCHANGED <<graphVars, envVars, buildVars, providerVars, pendingUpdates,
                 pendingDeletes, debounceTimer, flushPc, updates, updIdx,
                 flushChanged, updatePc, events, accepted, flushCalls,
                 onUpdateCalls, caught, microQ, historyVars>>

\* The host runs the callback of the oldest timeout once its delay is over.
TimerFires ==
  /\ timers # <<>>
  /\ Head(timers) = DebounceTicks
  /\ FlushUpdates

NextDebounce ==
  \/ events < MaxDebounceEvents /\ \E p \in Paths : HandleCreate(p)
  \/ events < MaxDebounceEvents /\ \E p \in Paths : HandleChange(p)
  \/ events < MaxDebounceEvents /\ \E p \in Paths : HandleDelete(p)
  \/ Tick
  \/ TimerFires
  \/ UpdateFileResume
  \/ FlushResume

SpecDebounce == Init /\ [][NextDebounce]_vars

\* C34 -- Debounce: every accepted create, change or delete event cancels the
\* scheduled flush, if any, and schedules a new one, so that at most one flush
\* timer is pending at any time, and a flush runs only when a full debounce
\* window has passed without a new accepted event.
Debounced ==
  /\ [](Len(timers) <= 1)
  /\ [][/\ events' # events => timers' = <<0>>
        /\ (debounceTimer = "pending" /\ debounceTimer' = "fired")
             => quiet = DebounceTicks]_vars

\* A burst of two events was flushed once, by the timer the second one armed.
Debounced_Witness ==
  /\ Len(accepted) >= 2
  /\ debounceTimer = "fired"
  /\ flushCalls # <<>>

\* ------------------------------------------- the watcher once events stop
MaxFairEvents == 2

NextFair ==
  \/ events < MaxFairEvents /\ \E p \in Paths : HandleCreate(p)
  \/ events < MaxFairEvents /\ \E p \in Paths : HandleChange(p)
  \/ events < MaxFairEvents /\ \E p \in Paths : HandleDelete(p)
  \/ Tick
  \/ TimerFires
  \/ UpdateFileResume
  \/ UpdateFileReject
  \/ FlushResume

\* Workspaces whose files import no file of the workspace.
Standalone == [Paths -> {Absent, Unreadable, SourceFile(<<>>)}]

InitFair ==
  /\ graph = EmptyGraph
  /\ lastCall = Call("new", 0, 0)
  /\ opCount = 0
  /\ fs \in Standalone
  /\ HostInit
  /\ ProcessInit

\* Time passes, the host runs a due timeout, and the event loop runs the
\* continuations it has queued.
SpecFair ==
  /\ InitFair
  /\ [][NextFair]_vars
  /\ WF_vars(Tick)
  /\ WF_vars(TimerFires)
  /\ WF_vars(UpdateFileResume \/ UpdateFileReject)
  /\ WF_vars(FlushResume)

SomethingPending == pendingUpdates # <<>> \/ pendingDeletes # <<>>

\* Every event accepted since the last flush has its path in a pending set.
PendingRecorded ==
  debounceTimer = "pending" =>
    \A i \in 1..Len(accepted) :
      Includes(pendingUpdates, accepted[i].path)
        \/ Includes(pendingDeletes, accepted[i].path)

\* The finished flush called updateFile or removeFile for every path it took.
PendingApplied ==
  FlushDone =>
    \A i \in 1..Len(accepted) :
      CallCount("updateFile", accepted[i].path) + CallCount("removeFile", accepted[i].path) > 0

\* C39 -- No accepted change is lost: every accepted event is, until it is
\* applied, recorded in a pending set; once events stop, a flush eventually
\* runs after which both pending sets are empty and updateFile or removeFile
\* has been called for every path that was pending.
NoAcceptedChangeLost ==
  /\ [](PendingRecorded /\ PendingApplied)
  /\ SomethingPending ~> (FlushDone /\ ~SomethingPending)

\* A flush applied a burst with an update and a delete.
NoAcceptedChangeLost_Witness ==
  /\ FlushDone
  /\ ~SomethingPending
  /\ Len(accepted) = 2
  /\ \E p, q \in Paths :
       CallCount("updateFile", p) > 0 /\ CallCount("removeFile", q) > 0

\* --------------------------------- a built graph kept up to date by edits
MaxEdits == 2

\* The loop "for (let i = 0; i < files.length; i++)" of buildGraph.
RECURSIVE ProcessFiles(_, _, _)
ProcessFiles(g, fsys, order) ==
  IF order = <<>> THEN g
  ELSE ProcessFiles(processFile(g, fsys, Head(order)), fsys, Tail(order))

\* ImportGraphBuilder.buildGraph: the graph a build returns when findFiles
\* lists the files in the given order
buildGraph(fsys, order) == calculateMetrics(ProcessFiles(EmptyGraph, fsys, order))

Ascending(S) ==
  CHOOSE order \in Orderings(S) :
    \A i, j \in 1..Len(order) : i < j => order[i] < order[j]

\* the graph of a fresh build of the workspace
FreshBuild(fsys) == buildGraph(fsys, Ascending(findTypeScriptFiles(fsys)))

\* A file is missing, unreadable, or a source file with at most one import,
\* of a file of the workspace (itself included).
EditedStates ==
  {Absent, Unreadable, SourceFile(<<>>)}
    \cup { SourceFile(<<RelativeSource(t)>>) : t \in Paths }

\* The extension has analysed some workspace once.
InitIncremental ==
  /\ fs \in [Paths -> EditedStates]
  /\ graph = FreshBuild(fs)
  /\ lastCall = Call("buildGraph", 0, 0)
  /\ opCount = 0
  /\ HostInit
  /\ ProcessInit

\* The watcher's handler for one event, as in HandleCreate, HandleChange and
\* HandleDelete.
Delivered(kind, p) ==
  /\ events' = events + 1
  /\ accepted' = Accept(kind, p)
  /\ pendingUpdates' = IF kind = "delete" THEN FilterOut(pendingUpdates, p)
                                          ELSE SetAdd(pendingUpdates, p)
  /\ pendingDeletes' = IF kind = "delete" THEN SetAdd(pendingDeletes, p)
                                          ELSE pendingDeletes
  /\ quiet' = 0
  /\ scheduleFlush

\* Another process writes the file and the watcher delivers the event.
Edit(kind, p, st) ==
  /\ MacrotaskMayRun
  /\ st # fs[p]
  /\ kind = IF ~st.exists THEN "delete" ELSE IF ~fs[p].exists THEN "create" ELSE "change"
  /\ fs' = [fs EXCEPT ![p] = st]
  /\ fsChanges' = fsChanges + 1
  /\ buildClean' = FALSE
  /\ updateClean' = FALSE
  /\ Delivered(kind, p)
  /\ UNCHANGED <<graphVars, queryVars, buildVars, providerVars, flushPc, updates,
                 updIdx, flushChanged, updatePc, flushCalls, onUpdateCalls, caught,
                 microQ, graphBeforeBuild, graphBeforeCall, lastRead, reads>>

NextIncremental ==
  \/ fsChanges < MaxEdits /\ \E p \in Paths, st \in EditedStates : Edit("create", p, st)
  \/ fsChanges < MaxEdits /\ \E p \in Paths, st \in EditedStates : Edit("change", p, st)
  \/ fsChanges < MaxEdits /\ \E p \in Paths, st \in EditedStates : Edit("delete", p, st)
  \/ FlushUpdates
  \/ UpdateFileResume
  \/ FlushResume

SpecIncremental == InitIncremental /\ [][NextIncremental]_vars

\* Every edit has been flushed and nothing is in flight.
Flushed ==
  /\ debounceTimer # "pending"
  /\ flushPc = "idle" /\ updatePc = "idle"
  /\ microQ = <<>>

\* the edges of g between files that exist
ExistingEdges(g) ==
  { e \in Paths \X Paths : fs[e[1]].exists /\ fs[e[2]].exists /\ HasEdge(g, e[1], e[2]) }

\* C35 -- Incremental maintenance agrees with a full rebuild: after any
\* sequence of file creations, modifications and deletions, each delivered as
\* a watcher event and flushed, the edges between existing files in the
\* incrementally maintained graph are the edges a fresh buildGraph over the
\* resulting files produces.
IncrementalAgreesWithRebuild ==
  Flushed => ExistingEdges(graph) = ExistingEdges(FreshBuild(fs))

\* updateFile(lastCall.a) has returned, and the file is as the call read it.
UpdateReturned ==
  /\ lastCall.op = "updateFile"
  /\ updatePc = "idle"
  /\ updateClean

\* C37 -- Frame of updateFile: updateFile(X) adds or removes only edges whose
\* source is X; every node Y other than X keeps its imports, and no node other
\* than X and the targets of X's new imports is created or deleted.
UpdateFrame ==
  UpdateReturned =>
    LET X == lastCall.a
    IN  /\ \A a \in Paths \ {X} : \A b \in Paths :
              /\ HasEdge(graph, a, b) <=> HasEdge(graphBeforeCall, a, b)
              /\ HasBackEdge(graph, a, b) <=> HasBackEdge(graphBeforeCall, a, b)
        /\ \A Y \in NodePaths(graphBeforeCall) \ {X} :
              /\ HasNode(graph, Y)
              /\ getNode(graph, Y).imports = getNode(graphBeforeCall, Y).imports
        /\ NodePaths(graphBeforeCall) \subseteq NodePaths(graph)
        /\ NodePaths(graph) \ NodePaths(graphBeforeCall)
              \subseteq {X} \cup ResolvedImports(X)

\* updateFile(X) dropped an edge of X and added one to a file that had no
\* node, beside a node Y that imports something.
UpdateFrame_Witness ==
  /\ UpdateReturned
  /\ \E t \in Paths :
       HasEdge(graphBeforeCall, lastCall.a, t) /\ ~HasEdge(graph, lastCall.a, t)
  /\ \E t \in Paths :
       HasEdge(graph, lastCall.a, t) /\ ~HasNode(graphBeforeCall, t)
  /\ \E Y \in NodePaths(graph) \ {lastCall.a} : getNode(graph, Y).imports # <<>>

\* C31 -- Parse failure during an incremental update, as stated: when
\* updateFile(X) is called and X cannot be parsed, X has no outgoing edge
\* afterwards (X.imports is empty and X is in no importedBy list), X's node
\* and its importedBy list are as before, and the metrics of all nodes are
\* recomputed.
ParseFailureKeepsImportedBy ==
  (UpdateReturned /\ ~Parses(lastCall.a)) =>
    LET X == lastCall.a
    IN  /\ \A t \in Paths : ~HasEdge(graph, X, t) /\ ~HasBackEdge(graph, X, t)
        /\ NodePaths(graph) = NodePaths(graphBeforeCall)
        /\ HasNode(graph, X) =>
              /\ getNode(graph, X).imports = <<>>
              /\ getNode(graph, X).importedBy = getNode(graphBeforeCall, X).importedBy
        /\ graph = calculateMetrics(graph)

\* C31 -- Parse failure during an incremental update, amended: as above, with
\* X's importedBy list keeping every importer other than X itself.
ParseFailureClearsEdges ==
  (UpdateReturned /\ ~Parses(lastCall.a)) =>
    LET X == lastCall.a
    IN  /\ \A t \in Paths : ~HasEdge(graph, X, t) /\ ~HasBackEdge(graph, X, t)
        /\ NodePaths(graph) = NodePaths(graphBeforeCall)
        /\ HasNode(graph, X) =>
              /\ getNode(graph, X).imports = <<>>
              /\ getNode(graph, X).importedBy
                   = FilterOut(getNode(graphBeforeCall, X).importedBy, X)
        /\ graph = calculateMetrics(graph)
        /\ graph = calculateMetrics(clearEdgesFor(graphBeforeCall, X))

\* updateFile(X) returned for an X that could not be read, had an import and
\* is imported by another file.
ParseFailureClearsEdges_Witness ==
  /\ UpdateReturned
  /\ ~Parses(lastCall.a)
  /\ \E t \in Paths : HasEdge(graphBeforeCall, lastCall.a, t)
  /\ \E Y \in Paths \ {lastCall.a} : HasBackEdge(graph, Y, lastCall.a)
====
